---- MODULE Spec2Model ----
(***************************************************************************)
(* protoc-gen-graphql of tmc/federated-gql: the translation of protobuf    *)
(* service/message descriptors into a GraphQL schema.                      *)
(*                                                                         *)
(* The repository holds two generations of the generator:                  *)
(*   - the schema model builder (walkSchemas / walkMethod / getInputType / *)
(*     getOutputType / getEnumType over gqltypes.Schema), and              *)
(*   - the template-data generator of tools/protoc-gen-graphql/generator.go*)
(*     (loadTemplate, extractMethods, extractMessages, hasEntityOption,    *)
(*     extractFields).                                                     *)
(* Both are modelled over the same descriptor set.  Strings the code       *)
(* inspects (prefixes, suffixes, case) are sequences of one-character      *)
(* strings; strings the code only compares are TLA+ strings.               *)
(***************************************************************************)
EXTENDS Integers, Sequences, FiniteSets, TLC

(***************************************************************************)
(* Bounds of the model.                                                    *)
(***************************************************************************)
\* methods declared by the drawn service (file 1)
MaxMethods == 2
\* call depth of getOutputType/getFieldType at which the Go runtime's stack
\* limit is taken to be exceeded (fatal "stack overflow")
MaxStack == 4

Nil == "nil"

\* a nil *protogen.Message, *protogen.Service or *protogen.File
NilObj == [nil |-> TRUE]
IsNil(x) == "nil" \in DOMAIN x

(***************************************************************************)
(* package strings                                                         *)
(***************************************************************************)
Upper == <<"A","B","C","D","E","F","G","H","I","J","K","L","M",
           "N","O","P","Q","R","S","T","U","V","W","X","Y","Z">>
Lower == <<"a","b","c","d","e","f","g","h","i","j","k","l","m",
           "n","o","p","q","r","s","t","u","v","w","x","y","z">>

ToLowerChar(c) ==
    IF \E i \in 1..Len(Upper) : Upper[i] = c
    THEN Lower[CHOOSE i \in 1..Len(Upper) : Upper[i] = c]
    ELSE c

ToUpperChar(c) ==
    IF \E i \in 1..Len(Lower) : Lower[i] = c
    THEN Upper[CHOOSE i \in 1..Len(Lower) : Lower[i] = c]
    ELSE c

ToLower(s) == [i \in 1..Len(s) |-> ToLowerChar(s[i])]

HasPrefix(s, p) == Len(s) >= Len(p) /\ SubSeq(s, 1, Len(p)) = p

HasSuffix(s, p) == Len(s) >= Len(p) /\ SubSeq(s, Len(s) - Len(p) + 1, Len(s)) = p

TrimSuffix(s, p) == IF HasSuffix(s, p) THEN SubSeq(s, 1, Len(s) - Len(p)) ELSE s

\* strings.Split(s, sep)[0] for a one-character separator
RECURSIVE SplitFirst(_, _)
SplitFirst(s, sep) ==
    IF s = <<>> \/ Head(s) = sep THEN <<>>
    ELSE <<Head(s)>> \o SplitFirst(Tail(s), sep)

\* strings.TrimLeft(s, cutset)
RECURSIVE TrimLeft(_, _)
TrimLeft(s, cutset) ==
    IF s # <<>> /\ Head(s) \in cutset THEN TrimLeft(Tail(s), cutset) ELSE s

\* strings.TrimRight(s, cutset)
RECURSIVE TrimRight(_, _)
TrimRight(s, cutset) ==
    IF s # <<>> /\ s[Len(s)] \in cutset
    THEN TrimRight(SubSeq(s, 1, Len(s) - 1), cutset) ELSE s

\* the white space of unicode.IsSpace that occurs in the modelled comments
Space == {" ", "\n", "\t"}

TrimSpace(s) == TrimRight(TrimLeft(s, Space), Space)

(***************************************************************************)
(* The text of the modelled descriptor set, as character sequences.        *)
(***************************************************************************)
sGet == <<"G","e","t">>
sList == <<"L","i","s","t">>
sSearch == <<"s","e","a","r","c","h">>
sCreate == <<"C","r","e","a","t","e">>
sArchive == <<"A","r","c","h","i","v","e">>
sUpdate == <<"U","p","d","a","t","e">>
sWidget == <<"W","i","d","g","e","t">>
sWidgets == <<"W","i","d","g","e","t","s">>
sRequest == <<"R","e","q","u","e","s","t">>
sResponse == <<"R","e","s","p","o","n","s","e">>
sInput == <<"I","n","p","u","t">>
sNode == <<"N","o","d","e">>
sTree == <<"T","r","e","e">>
sBranch == <<"B","r","a","n","c","h">>
sOuter == <<"O","u","t","e","r">>
sItem == <<"I","t","e","m">>
sProduct == <<"P","r","o","d","u","c","t">>
sOrder == <<"O","r","d","e","r">>
sUser == <<"U","s","e","r">>
sAccount == <<"A","c","c","o","u","n","t">>
sStatus == <<"S","t","a","t","u","s">>
sQuery == <<"Q","u","e","r","y">>
sMutation == <<"M","u","t","a","t","i","o","n">>
sV1 == <<"v","1">>
sUnderId == <<"_","i","d">>
sId == <<"I","d">>
sWidgetSvc == <<"w","i","d","g","e","t",".","v","1",".","W","i","d","g","e","t","S","e","r","v","i","c","e">>
sProductSvc == <<"p","r","o","d","u","c","t",".","v","1",".","P","r","o","d","u","c","t","S","e","r","v","i","c","e">>
sDotGraphql == <<".","g","r","a","p","h","q","l">>
f_widget_id == <<"w","i","d","g","e","t","_","i","d">>
f_name == <<"n","a","m","e">>
f_status == <<"s","t","a","t","u","s">>
f_owner == <<"o","w","n","e","r">>
f_tags == <<"t","a","g","s">>
f_price == <<"p","r","i","c","e">>
f_page_size == <<"p","a","g","e","_","s","i","z","e">>
f_user_id == <<"u","s","e","r","_","i","d">>
f_node_id == <<"n","o","d","e","_","i","d">>
f_next == <<"n","e","x","t">>
f_root == <<"r","o","o","t">>
f_tree == <<"t","r","e","e">>
f_item_id == <<"i","t","e","m","_","i","d">>
f_detail == <<"d","e","t","a","i","l">>
f_label == <<"l","a","b","e","l">>
f_product_id == <<"p","r","o","d","u","c","t","_","i","d">>
f_product == <<"p","r","o","d","u","c","t">>
f_widget == <<"w","i","d","g","e","t">>
f_widgets == <<"w","i","d","g","e","t","s">>
f_id == <<"i","d">>
eUnknown == <<"U","N","K","N","O","W","N">>
eActive == <<"A","C","T","I","V","E">>
sStatusFull == <<"w","i","d","g","e","t",".","v","1",".","S","t","a","t","u","s">>
sValue == <<"V","a","l","u","e",":"," ">>
cNone == <<>>
cWidget == <<" ","A"," ","w","i","d","g","e","t",".","\n">>
cGet == <<" ","G","e","t","s"," ","o","n","e",".","\n"," ","/","/"," ","b","y"," ","i","d","\n">>
cId == <<" ","K","e","y",".","\n">>
gBoolean == <<"B","o","o","l","e","a","n">>
gInt == <<"I","n","t">>
gFloat == <<"F","l","o","a","t">>
gID == <<"I","D">>
gString == <<"S","t","r","i","n","g">>
gObject == <<"O","b","j","e","c","t">>

(***************************************************************************)
(* The descriptor set (protogen.Plugin): files, services, methods,         *)
(* messages, fields, enums.  A message or enum is referred to by its full  *)
(* name (a TLA+ string); Desc.Name() is its short name.  EntityOpt and     *)
(* KeyOpt are the value of option 50001 as set on the message or field:    *)
(* "absent", "true" or "false".  OptReadable tells whether the options'    *)
(* descriptor lists a field numbered 50001, so that the generator's lookup *)
(* finds the value; google.protobuf.MessageOptions and FieldOptions carry  *)
(* 50001 as an extension, which the descriptor's field list does not hold, *)
(* so it is FALSE on every message and field.                              *)
(***************************************************************************)
OptValues == {"absent", "true", "false"}

Kinds == {"BoolKind", "EnumKind", "Int32Kind", "Sint32Kind", "Uint32Kind",
          "Int64Kind", "Sint64Kind", "Uint64Kind", "Sfixed32Kind", "Fixed32Kind",
          "FloatKind", "Sfixed64Kind", "Fixed64Kind", "DoubleKind", "StringKind",
          "BytesKind", "MessageKind", "GroupKind"}

\* a field that is neither optional nor repeated, without presence
Scalar(name, kind, comment) ==
    [Name |-> name, Kind |-> kind, IsList |-> FALSE, HasPresence |-> FALSE,
     HasOptionalKeyword |-> FALSE, Message |-> Nil, Enum |-> Nil,
     KeyOpt |-> "absent", OptReadable |-> FALSE, Comment |-> comment]

\* a proto3 optional field: it has presence
Optional(name, kind, comment) ==
    [Scalar(name, kind, comment) EXCEPT !.HasPresence = TRUE, !.HasOptionalKeyword = TRUE]

Repeated(name, kind) == [Scalar(name, kind, cNone) EXCEPT !.IsList = TRUE]

\* a singular message field: it has presence
MsgField(name, msg) ==
    [Scalar(name, "MessageKind", cNone) EXCEPT !.HasPresence = TRUE, !.Message = msg]

RepeatedMsg(name, msg) ==
    [Scalar(name, "MessageKind", cNone) EXCEPT !.IsList = TRUE, !.Message = msg]

EnumField(name, enum) == [Scalar(name, "EnumKind", cNone) EXCEPT !.Enum = enum]

Message(full, name, comment, fields) ==
    [FullName |-> full, Name |-> name, Comment |-> comment, EntityOpt |-> "absent",
     OptReadable |-> FALSE, Fields |-> fields]

MsgIds == {"widget.v1.GetWidgetRequest", "widget.v1.GetWidgetResponse",
           "widget.v1.ListWidgetsRequest", "widget.v1.ListWidgetsResponse",
           "widget.v1.CreateWidgetRequest", "widget.v1.Widget", "widget.v1.Account",
           "widget.v1.Node", "widget.v1.Tree", "widget.v1.Branch",
           "widget.v1.Item", "widget.v1.Outer", "widget.v1.Outer.Item",
           "widget.v1.Unused", "widget.v1.GetWidget", "widget.v1.Order",
           "product.v1.GetProductRequest", "product.v1.GetProductResponse",
           "product.v1.Product"}

MsgOf(id) ==
    CASE id = "widget.v1.GetWidgetRequest" ->
           Message(id, sGet \o sWidget \o sRequest, cNone,
                   <<Scalar(f_widget_id, "StringKind", cId)>>)
      [] id = "widget.v1.GetWidgetResponse" ->
           Message(id, sGet \o sWidget \o sResponse, cNone,
                   <<MsgField(f_widget, "widget.v1.Widget")>>)
      [] id = "widget.v1.ListWidgetsRequest" ->
           Message(id, sList \o sWidgets \o sRequest, cNone,
                   <<Scalar(f_page_size, "Int32Kind", cNone),
                     EnumField(f_status, "widget.v1.Status")>>)
      [] id = "widget.v1.ListWidgetsResponse" ->
           Message(id, sList \o sWidgets \o sResponse, cNone,
                   <<RepeatedMsg(f_widgets, "widget.v1.Widget")>>)
      [] id = "widget.v1.CreateWidgetRequest" ->
           Message(id, sCreate \o sWidget \o sRequest, cNone,
                   <<MsgField(f_widget, "widget.v1.Widget")>>)
      [] id = "widget.v1.Widget" ->
           Message(id, sWidget, cWidget,
                   <<Scalar(f_widget_id, "StringKind", cId),
                     Optional(f_name, "StringKind", cNone),
                     EnumField(f_status, "widget.v1.Status"),
                     MsgField(f_owner, "widget.v1.Account"),
                     Repeated(f_tags, "StringKind"),
                     Scalar(f_price, "DoubleKind", cNone)>>)
      [] id = "widget.v1.Account" ->
           Message(id, sAccount, cNone,
                   <<Scalar(f_user_id, "StringKind", cNone)>>)
      [] id = "widget.v1.Node" ->
           Message(id, sNode, cNone,
                   <<Optional(f_node_id, "StringKind", cNone),
                     MsgField(f_next, "widget.v1.Node")>>)
      [] id = "widget.v1.Tree" ->
           Message(id, sTree, cNone, <<MsgField(f_root, "widget.v1.Branch")>>)
      [] id = "widget.v1.Branch" ->
           Message(id, sBranch, cNone, <<MsgField(f_tree, "widget.v1.Tree")>>)
      [] id = "widget.v1.Item" ->
           Message(id, sItem, cNone,
                   <<Optional(f_item_id, "StringKind", cNone),
                     MsgField(f_detail, "widget.v1.Outer.Item")>>)
      [] id = "widget.v1.Outer" -> Message(id, sOuter, cNone, <<>>)
      [] id = "widget.v1.Outer.Item" ->
           Message(id, sItem, cWidget, <<Scalar(f_label, "BytesKind", cNone)>>)
      [] id = "widget.v1.Unused" ->
           Message(id, sUser, cNone, <<Scalar(f_id, "Uint64Kind", cNone)>>)
      [] id = "widget.v1.GetWidget" ->
           Message(id, sGet \o sWidget, cNone,
                   <<Scalar(f_name, "StringKind", cNone),
                     Scalar(f_page_size, "Int32Kind", cNone)>>)
      [] id = "widget.v1.Order" ->
           Message(id, sOrder, cNone,
                   <<Scalar(f_id, "StringKind", cNone),
                     Optional(f_user_id, "StringKind", cNone)>>)
      [] id = "product.v1.GetProductRequest" ->
           Message(id, sGet \o sProduct \o sRequest, cNone,
                   <<Scalar(f_product_id, "StringKind", cNone)>>)
      [] id = "product.v1.GetProductResponse" ->
           Message(id, sGet \o sProduct \o sResponse, cNone,
                   <<MsgField(f_product, "product.v1.Product")>>)
      [] id = "product.v1.Product" ->
           Message(id, sProduct, cNone,
                   <<Scalar(f_product_id, "StringKind", cNone),
                     Scalar(f_name, "StringKind", cNone),
                     Scalar(f_price, "DoubleKind", cNone)>>)

EnumOf(id) ==
    CASE id = "widget.v1.Status" ->
           [FullName |-> sStatusFull, Name |-> sStatus,
            Values |-> <<[Name |-> eUnknown, Number |-> 0],
                         [Name |-> eActive, Number |-> 1]>>]

Method(svc, name, input, output, comment) ==
    [Parent |-> svc, Name |-> name, Input |-> input, Output |-> output,
     Comment |-> comment]

\* the methods a WidgetService may declare
WidgetMethods ==
    { Method(sWidgetSvc, sGet \o sWidget, "widget.v1.GetWidgetRequest",
             "widget.v1.GetWidgetResponse", cGet),
      Method(sWidgetSvc, sList \o sWidgets, "widget.v1.ListWidgetsRequest",
             "widget.v1.ListWidgetsResponse", cNone),
      Method(sWidgetSvc, sSearch \o sWidgets, "widget.v1.ListWidgetsRequest",
             "widget.v1.ListWidgetsResponse", cNone),
      Method(sWidgetSvc, sCreate \o sWidget, "widget.v1.CreateWidgetRequest",
             "widget.v1.Widget", cNone),
      Method(sWidgetSvc, sArchive \o sWidget, "widget.v1.GetWidgetRequest",
             "widget.v1.Widget", cNone),
      Method(sWidgetSvc, sGet \o sNode, "widget.v1.GetWidgetRequest",
             "widget.v1.Node", cNone),
      Method(sWidgetSvc, sUpdate \o sTree, "widget.v1.CreateWidgetRequest",
             "widget.v1.Tree", cNone),
      Method(sWidgetSvc, sGet \o sItem, "widget.v1.GetWidgetRequest",
             "widget.v1.Item", cNone),
      Method(sWidgetSvc, sList \o sItem, "widget.v1.ListWidgetsRequest",
             "widget.v1.Outer.Item", cNone),
      Method(sWidgetSvc, sSearch \o sWidget, "widget.v1.GetWidget",
             "widget.v1.Widget", cNone),
      Method(sWidgetSvc, sGet \o sOrder, "widget.v1.GetWidgetRequest",
             "widget.v1.Order", cNone) }

\* a nil *protogen.Method, a method without Input and one without Output
NilMethod == NilObj

NoInputMethod ==
    Method(sWidgetSvc, sGet \o sAccount, Nil, "widget.v1.Account", cNone)

NoOutputMethod ==
    Method(sWidgetSvc, sUpdate \o sWidget, "widget.v1.CreateWidgetRequest", Nil, cNone)

GetWidgetMethod ==
    Method(sWidgetSvc, sGet \o sWidget, "widget.v1.GetWidgetRequest",
           "widget.v1.GetWidgetResponse", cGet)

\* the method lists with a nil in them
NilLists ==
    { <<NilMethod>>, <<NilMethod, GetWidgetMethod>>, <<GetWidgetMethod, NilMethod>>,
      <<NoInputMethod>>, <<GetWidgetMethod, NoInputMethod>>,
      <<NoOutputMethod>>, <<GetWidgetMethod, NoOutputMethod>> }

ProductMethods ==
    <<Method(sProductSvc, sGet \o sProduct, "product.v1.GetProductRequest",
             "product.v1.GetProductResponse", cGet)>>

\* the sequences without repetition over S of length at most n
RECURSIVE SeqsUpTo(_, _)
SeqsUpTo(S, n) ==
    IF n = 0 THEN {<<>>}
    ELSE LET shorter == SeqsUpTo(S, n - 1)
         IN  shorter \cup
             {Append(q, x) : q \in {r \in shorter : Len(r) = n - 1},
                             x \in S} 

NoRepeat(q) == \A i, j \in 1..Len(q) : i # j => q[i] # q[j]

\* gen.Files: the widget file declares the drawn methods, the product file
\* the fixed ones; g1, g2 are the files' Generate flags
FilesOf(ms, g1, g2) ==
    << [Path |-> "widget/v1/widget.proto", Generate |-> g1,
        Services |-> <<[FullName |-> sWidgetSvc, Methods |-> ms]>>,
        Messages |-> <<"widget.v1.GetWidgetRequest", "widget.v1.GetWidgetResponse",
                       "widget.v1.ListWidgetsRequest", "widget.v1.ListWidgetsResponse",
                       "widget.v1.CreateWidgetRequest", "widget.v1.Widget",
                       "widget.v1.Account", "widget.v1.Node", "widget.v1.Tree",
                       "widget.v1.Branch", "widget.v1.Item", "widget.v1.Outer",
                       "widget.v1.Unused", "widget.v1.GetWidget",
                       "widget.v1.Order">>],
       [Path |-> "product/v1/product.proto", Generate |-> g2,
        Services |-> <<[FullName |-> sProductSvc, Methods |-> ProductMethods]>>,
        Messages |-> <<"product.v1.GetProductRequest", "product.v1.GetProductResponse",
                       "product.v1.Product">>] >>

(***************************************************************************)
(* gqltypes: the schema model and the type-kind mapper.                    *)
(***************************************************************************)
\* the zero value of gqltypes.Type with a name
NewType(name) ==
    [Name |-> name, Fields |-> <<>>, Comment |-> <<>>,
     IsFederatedEntity |-> FALSE, KeyFields |-> <<>>]

newSchema ==
    [ServiceName |-> <<>>, RootQuery |-> NewType(sQuery),
     RootMutation |-> NewType(sMutation), Types |-> <<>>, Inputs |-> <<>>,
     Enums |-> <<>>]

ProtoKindToGraphQL(kind, isRepeated, isRequired) ==
    LET baseType ==
          CASE kind = "BoolKind" -> gBoolean
            [] kind \in {"Int32Kind", "Sint32Kind", "Sfixed32Kind", "Int64Kind",
                         "Sint64Kind", "Sfixed64Kind", "Uint32Kind", "Fixed32Kind",
                         "Uint64Kind", "Fixed64Kind"} -> gInt
            [] kind \in {"FloatKind", "DoubleKind"} -> gFloat
            [] kind = "StringKind" -> gID
            [] kind = "BytesKind" -> gString
            [] kind = "EnumKind" -> gString
            [] kind = "MessageKind" -> gObject
            [] OTHER -> gString
    IN  IF isRepeated THEN <<"[">> \o baseType \o <<"]">> ELSE baseType

\* fmt.Sprintf("%d", n) for n >= 0
RECURSIVE Itoa(_)
Itoa(n) ==
    LET digit == <<"0","1","2","3","4","5","6","7","8","9">>[(n % 10) + 1]
    IN  IF n < 10 THEN <<digit>> ELSE Itoa(n \div 10) \o <<digit>>

ProtoEnumToGraphQL(enum) ==
    [Name |-> enum.Name,
     Options |-> [i \in 1..Len(enum.Values) |->
                    [Name |-> enum.Values[i].Name,
                     Comment |-> sValue \o Itoa(enum.Values[i].Number)]],
     Comment |-> enum.FullName]

\* Type.ShouldFederate: the receiver after the call
ShouldFederate(t) ==
    LET hit == {i \in 1..Len(t.Fields) :
                  HasSuffix(t.Fields[i].Name, sId) /\ t.Fields[i].IsRequired}
    IN  IF hit = {} THEN t
        ELSE LET i == CHOOSE k \in hit : \A j \in hit : k <= j
             IN  [t EXCEPT !.IsFederatedEntity = TRUE, !.KeyFields = t.Fields[i].Name]

(***************************************************************************)
(* The schema model builder.                                               *)
(***************************************************************************)
\* commentRe.ReplaceAllString(s, " ") with commentRe = `\n\s*//\s*`
RECURSIVE ReplaceCommentRe(_)
ReplaceCommentRe(s) ==
    IF s = <<>> THEN <<>>
    ELSE LET rest == TrimLeft(Tail(s), Space)
         IN  IF Head(s) = "\n" /\ HasPrefix(rest, <<"/", "/">>)
             THEN <<" ">> \o ReplaceCommentRe(TrimLeft(SubSeq(rest, 3, Len(rest)), Space))
             ELSE <<Head(s)>> \o ReplaceCommentRe(Tail(s))

cleanComment(comment) ==
    IF comment = <<>> THEN <<>>
    ELSE TrimSpace(ReplaceCommentRe(TrimLeft(comment, {"*", "/", "\n", " "})))

\* protoreflect FieldDescriptor.JSONName: the underscores dropped, the
\* letter after one in upper case
RECURSIVE JSONCamelCase(_, _)
JSONCamelCase(s, wasUnderscore) ==
    IF s = <<>> THEN <<>>
    ELSE IF Head(s) = "_" THEN JSONCamelCase(Tail(s), TRUE)
    ELSE <<IF wasUnderscore THEN ToUpperChar(Head(s)) ELSE Head(s)>>
         \o JSONCamelCase(Tail(s), FALSE)

JSONName(f) == JSONCamelCase(f.Name, FALSE)

getMethodName(m) == <<ToLowerChar(m.Name[1])>> \o Tail(m.Name)

getInputTypeName(m) == TrimSuffix(m.Name, sRequest) \o sInput

\* the index of the first entry of list named name, 0 if there is none
IndexOfName(list, name) ==
    IF \E i \in 1..Len(list) : list[i].Name = name
    THEN CHOOSE i \in 1..Len(list) :
           list[i].Name = name /\ \A j \in 1..(i - 1) : list[j].Name # name
    ELSE 0

\* getEnumType naming the enum without registering it
getEnumTypeUnregistered(s, e) == [s |-> s, name |-> e.Name]

getEnumType(s, e) ==
    IF IndexOfName(s.Enums, e.Name) # 0
    THEN [s |-> s, name |-> e.Name]
    ELSE [s |-> [s EXCEPT !.Enums = Append(@, ProtoEnumToGraphQL(e))], name |-> e.Name]

\* A call returns the schema after it, its result, and crash: TRUE when the
\* recursion is deeper than MaxStack frames, where the runtime ends the
\* process with a stack overflow.  What follows a call in the source is an
\* operator of its own that takes the call's result.
RECURSIVE getOutputType(_, _, _), getFieldType(_, _, _), walkFields(_, _, _, _),
          walkField(_, _, _, _)

\* the Field literal of the loops over m.Fields, r what getFieldType returned
fieldOf(f, r) ==
    [Name |-> JSONName(f), Type |-> r.type, Comment |-> cleanComment(f.Comment),
     Inputs |-> <<>>, IsRequired |-> f.HasPresence]

\* the loop over m.Fields of getInputType and of getOutputType
walkFields(s, fs, acc, depth) ==
    IF fs = <<>> THEN [s |-> s, fields |-> acc, crash |-> FALSE]
    ELSE walkField(getFieldType(s, Head(fs), depth), fs, acc, depth)

\* the rest of one iteration, r what getFieldType returned
walkField(r, fs, acc, depth) ==
    IF r.crash THEN [s |-> r.s, fields |-> acc, crash |-> TRUE]
    ELSE walkFields(r.s, Tail(fs), Append(acc, fieldOf(Head(fs), r)), depth)

\* s.Types = append(s.Types, output); return output
appendType(s, output) ==
    [s |-> [s EXCEPT !.Types = Append(@, output)], t |-> output, crash |-> FALSE]

\* getOutputType after its loop, r what the loop left
registerType(m, r) ==
    IF r.crash THEN [s |-> r.s, t |-> NewType(<<>>), crash |-> TRUE]
    ELSE appendType(r.s, ShouldFederate([NewType(m.Name) EXCEPT
                                           !.Fields = r.fields,
                                           !.Comment = cleanComment(m.Comment)]))

\* getOutputType without the lookup of s.Types: every encounter registers
getOutputTypeNoLookup(s, m, depth) ==
    IF depth > MaxStack THEN [s |-> s, t |-> NewType(<<>>), crash |-> TRUE]
    ELSE registerType(m, walkFields(s, m.Fields, <<>>, depth))

getOutputType(s, m, depth) ==
    IF depth > MaxStack THEN [s |-> s, t |-> NewType(<<>>), crash |-> TRUE]
    ELSE IF IndexOfName(s.Types, m.Name) # 0
    THEN [s |-> s, t |-> s.Types[IndexOfName(s.Types, m.Name)], crash |-> FALSE]
    ELSE registerType(m, walkFields(s, m.Fields, <<>>, depth))

\* getOutputType(s, f.Message).Name
nameOf(r) == [s |-> r.s, type |-> r.t.Name, crash |-> r.crash]

getFieldType(s, f, depth) ==
    IF f.Message # Nil THEN nameOf(getOutputType(s, MsgOf(f.Message), depth + 1))
    ELSE IF f.Enum # Nil
    THEN [s |-> getEnumType(s, EnumOf(f.Enum)).s,
          type |-> getEnumType(s, EnumOf(f.Enum)).name, crash |-> FALSE]
    ELSE [s |-> s, type |-> ProtoKindToGraphQL(f.Kind, f.IsList, f.HasPresence),
          crash |-> FALSE]

\* s.Inputs = append(s.Inputs, input); return input
appendInput(s, input) ==
    [s |-> [s EXCEPT !.Inputs = Append(@, input)], input |-> input, crash |-> FALSE]

\* getInputType after its loop, r what the loop left
registerInput(m, r) ==
    IF r.crash THEN [s |-> r.s, input |-> Nil, crash |-> TRUE]
    ELSE appendInput(r.s, [Name |-> getInputTypeName(m), Fields |-> r.fields,
                           Comment |-> cleanComment(m.Comment)])

\* getInputType without the lookup of s.Inputs: every request registers
getInputTypeNoLookup(s, m) ==
    registerInput(m, walkFields(s, m.Fields, <<>>, 0))

getInputType(s, m) ==
    IF IndexOfName(s.Inputs, getInputTypeName(m)) # 0
    THEN [s |-> s, input |-> s.Inputs[IndexOfName(s.Inputs, getInputTypeName(m))],
          crash |-> FALSE]
    ELSE registerInput(m, walkFields(s, m.Fields, <<>>, 0))

\* the classification of walkMethod
isQuery(m) ==
    \/ HasPrefix(ToLower(m.Name), <<"g","e","t">>)
    \/ HasPrefix(ToLower(m.Name), <<"l","i","s","t">>)
    \/ HasPrefix(ToLower(m.Name), <<"s","e","a","r","c","h">>)

\* g.schemas[svcFullName], made on the service's first method
schemaOf(g, svcFullName) ==
    IF svcFullName \in g.services THEN g.schemas[svcFullName]
    ELSE [newSchema EXCEPT
            !.ServiceName = TrimSuffix(SplitFirst(svcFullName, "."), sV1)]

\* the generator's maps with schema stored for every service at once, as
\* if the services shared one Schema
withSchemaShared(g, svcFullName, schema, crash) ==
    [services |-> g.services \cup {svcFullName},
     schemas |-> [n \in DOMAIN g.schemas \cup {svcFullName} |-> schema],
     crash |-> crash]

\* the generator's maps with schema stored for svcFullName
withSchema(g, svcFullName, schema, crash) ==
    [services |-> g.services \cup {svcFullName},
     schemas |-> [n \in DOMAIN g.schemas \cup {svcFullName} |->
                    IF n = svcFullName THEN schema ELSE g.schemas[n]],
     crash |-> crash]

\* the Field literal of walkMethod
rootField(m, input, output) ==
    [Name |-> getMethodName(m), Type |-> output.Name,
     Comment |-> cleanComment(m.Comment), Inputs |-> <<input>>, IsRequired |-> FALSE]

\* walkMethod with the field appended to both root types
addRootFieldBoth(g, m, input, out) ==
    IF out.crash THEN withSchema(g, m.Parent, out.s, TRUE)
    ELSE withSchema(g, m.Parent,
           [out.s EXCEPT !.RootQuery.Fields = Append(@, rootField(m, input, out.t)),
                         !.RootMutation.Fields = Append(@, rootField(m, input, out.t))],
           FALSE)

\* walkMethod once getOutputType has returned out
addRootField(g, m, input, out) ==
    IF out.crash THEN withSchema(g, m.Parent, out.s, TRUE)
    ELSE IF isQuery(m)
    THEN withSchema(g, m.Parent,
           [out.s EXCEPT !.RootQuery.Fields = Append(@, rootField(m, input, out.t))],
           FALSE)
    ELSE withSchema(g, m.Parent,
           [out.s EXCEPT !.RootMutation.Fields = Append(@, rootField(m, input, out.t))],
           FALSE)

\* walkMethod once getInputType has returned in
addOutputType(g, m, in) ==
    IF in.crash THEN withSchema(g, m.Parent, in.s, TRUE)
    ELSE IF m.Output = Nil THEN withSchema(g, m.Parent, in.s, TRUE)
    ELSE addRootField(g, m, in.input, getOutputType(in.s, MsgOf(m.Output), 1))

\* Generator.walkMethod on the generator's maps g = [services, schemas].
\* Nothing in it tests for nil: m.Parent of a nil method, m.Desc of a nil
\* Input (getInputTypeName) and m.Desc of a nil Output (getOutputType) are
\* nil pointer dereferences, which end the process (crash)
walkMethod(g, m) ==
    IF IsNil(m) THEN [services |-> g.services, schemas |-> g.schemas, crash |-> TRUE]
    ELSE IF m.Input = Nil THEN withSchema(g, m.Parent, schemaOf(g, m.Parent), TRUE)
    ELSE addOutputType(g, m, getInputType(schemaOf(g, m.Parent), MsgOf(m.Input)))

(***************************************************************************)
(* tools/protoc-gen-graphql/generator.go: the template data.               *)
(***************************************************************************)
\* protoreflect.Kind.String()
KindString(kind) ==
    CASE kind = "BoolKind" -> "bool"
      [] kind = "EnumKind" -> "enum"
      [] kind = "Int32Kind" -> "int32"
      [] kind = "Sint32Kind" -> "sint32"
      [] kind = "Uint32Kind" -> "uint32"
      [] kind = "Int64Kind" -> "int64"
      [] kind = "Sint64Kind" -> "sint64"
      [] kind = "Uint64Kind" -> "uint64"
      [] kind = "Sfixed32Kind" -> "sfixed32"
      [] kind = "Fixed32Kind" -> "fixed32"
      [] kind = "FloatKind" -> "float"
      [] kind = "Sfixed64Kind" -> "sfixed64"
      [] kind = "Fixed64Kind" -> "fixed64"
      [] kind = "DoubleKind" -> "double"
      [] kind = "StringKind" -> "string"
      [] kind = "BytesKind" -> "bytes"
      [] kind = "MessageKind" -> "message"
      [] kind = "GroupKind" -> "group"
      [] OTHER -> "<unknown:0>"

\* the characters of the kind names GetGraphQLType has no case for
Chars(protoType) ==
    CASE protoType = "enum" -> <<"e","n","u","m">>
      [] protoType = "message" -> <<"m","e","s","s","a","g","e">>
      [] protoType = "group" -> <<"g","r","o","u","p">>
      [] protoType = "<unknown:0>" -> <<"<","u","n","k","n","o","w","n",":","0",">">>

\* gqltypes.GetGraphQLType on the name of a kind
GetGraphQLType(protoType, isRepeated, isRequired) ==
    LET baseType ==
          CASE protoType \in {"int32", "int64", "sint32", "sint64", "sfixed32",
                              "sfixed64"} -> gInt
            [] protoType \in {"uint32", "uint64", "fixed32", "fixed64"} -> gInt
            [] protoType \in {"float", "double"} -> gFloat
            [] protoType = "bool" -> gBoolean
            [] protoType = "string" -> gString
            [] protoType = "bytes" -> gString
            [] OTHER -> Chars(protoType)
        listed == IF isRepeated THEN <<"[">> \o baseType \o <<"]">> ELSE baseType
    IN  IF isRequired THEN listed \o <<"!">> ELSE listed

\* the "basic type mapping" switch of extractInputArgs and extractFields
BasicType(kind) ==
    CASE KindString(kind) \in {"DOUBLE", "FLOAT"} -> gFloat
      [] KindString(kind) \in {"INT32", "INT64", "UINT32", "UINT64", "SINT32",
                               "SINT64", "FIXED32", "FIXED64", "SFIXED32",
                               "SFIXED64"} -> gInt
      [] KindString(kind) = "BOOL" -> gBoolean
      [] OTHER -> gString

\* strings.Split(strings.TrimSuffix(s, "\n"), "\n")
RECURSIVE SplitLines(_, _)
SplitLines(s, line) ==
    IF s = <<>> THEN <<line>>
    ELSE IF Head(s) = "\n" THEN <<line>> \o SplitLines(Tail(s), <<>>)
    ELSE SplitLines(Tail(s), Append(line, Head(s)))

RECURSIVE JoinComment(_)
JoinComment(lines) ==
    IF lines = <<>> THEN <<>>
    ELSE <<"/", "/">> \o Head(lines) \o <<"\n">> \o JoinComment(Tail(lines))

\* protogen.Comments.String()
CommentsString(c) ==
    IF c = <<>> THEN <<>>
    ELSE JoinComment(SplitLines(TrimSuffix(c, <<"\n">>), <<>>))

\* strings.ReplaceAll(s, "//", "")
RECURSIVE DropSlashes(_)
DropSlashes(s) ==
    IF s = <<>> THEN <<>>
    ELSE IF HasPrefix(s, <<"/", "/">>) THEN DropSlashes(SubSeq(s, 3, Len(s)))
    ELSE <<Head(s)>> \o DropSlashes(Tail(s))

\* the lookup of field 50001 on the options and of its value: "absent" when
\* Fields().ByNumber finds no such field; when it finds one, opts.Get gives
\* the value set or, the option not being set, the default false, and both
\* are valid
lookupOption(opt, readable) ==
    IF ~readable THEN "absent"
    ELSE IF opt = "true" THEN "true" ELSE "false"

hasEntityOption(msg) ==
    IF IsNil(msg) THEN FALSE
    ELSE IF msg.Name \in {sProduct, sOrder, sUser} THEN TRUE
    ELSE IF lookupOption(msg.EntityOpt, msg.OptReadable) # "absent"
    THEN lookupOption(msg.EntityOpt, msg.OptReadable) = "true"
    ELSE FALSE

\* the isKey of one field in extractFields
isKey(f) ==
    IF lookupOption(f.KeyOpt, f.OptReadable) # "absent"
    THEN lookupOption(f.KeyOpt, f.OptReadable) = "true"
    ELSE HasSuffix(f.Name, sUnderId)

extractField(f) ==
    [Name |-> f.Name,
     GraphQLType |-> IF KindString(f.Kind) = "MESSAGE" /\ f.Message # Nil
                     THEN MsgOf(f.Message).Name ELSE BasicType(f.Kind),
     NonNull |-> ~f.HasOptionalKeyword,
     External |-> FALSE,
     Key |-> isKey(f),
     Requires |-> <<>>,
     ComputedFrom |-> <<>>,
     Comment |-> DropSlashes(CommentsString(f.Comment))]

extractFields(msg) ==
    IF IsNil(msg) THEN <<>>
    ELSE [i \in 1..Len(msg.Fields) |-> extractField(msg.Fields[i])]

\* the lines hasEntityOption and extractFields log for the message whose
\* Message literal is d: "Found entity by name" when the name decides, then
\* "Found key field by name" for each field ending in _id, in order
EntityLog(d) ==
    IF d.Name \in {sProduct, sOrder, sUser}
    THEN << <<"Found entity by name", d.Name>> >> ELSE <<>>

RECURSIVE KeyLog(_)
KeyLog(fields) ==
    IF fields = <<>> THEN <<>>
    ELSE (IF HasSuffix(Head(fields).Name, sUnderId)
          THEN << <<"Found key field by name", Head(fields).Name>> >> ELSE <<>>)
         \o KeyLog(Tail(fields))

\* the lines logged while the Message literals of list were made, in order
RECURSIVE MessagesLog(_)
MessagesLog(list) ==
    IF list = <<>> THEN <<>>
    ELSE EntityLog(Head(list)) \o KeyLog(Head(list).Fields) \o MessagesLog(Tail(list))

\* the lines logged by prepareTemplateData while it made data
DataLog(data) == MessagesLog(data.Services[1].Messages) \o MessagesLog(data.Messages)

\* the Message literal of extractMessages and addNestedMessages
MessageData(msg) ==
    [Name |-> msg.Name, Fields |-> extractFields(msg), Entity |-> hasEntityOption(msg),
     ReferenceMethods |-> <<>>, Comment |-> <<>>]

\* r = [messages, processed]: the list and the set of names both functions share
RECURSIVE addNestedMessages(_, _), addNestedFields(_, _)

\* the append and the mark of one message, then the descent into it
addMessage(sub, r) ==
    addNestedMessages(sub, [messages |-> Append(r.messages, MessageData(sub)),
                            processed |-> r.processed \cup {sub.Name}])

\* the loop over the fields fs of a message
addNestedFields(fs, r) ==
    IF fs = <<>> THEN r
    ELSE IF IsNil(Head(fs)) \/ Head(fs).Message = Nil
    THEN addNestedFields(Tail(fs), r)
    ELSE IF MsgOf(Head(fs).Message).Name \in r.processed
    THEN addNestedFields(Tail(fs), r)
    ELSE addNestedFields(Tail(fs), addMessage(MsgOf(Head(fs).Message), r))

addNestedMessages(msg, r) ==
    IF IsNil(msg) THEN r ELSE addNestedFields(msg.Fields, r)

\* the output message itself, if its name is new
addOutput(out, r) ==
    IF out.Name \in r.processed THEN r
    ELSE [messages |-> Append(r.messages, MessageData(out)),
          processed |-> r.processed \cup {out.Name}]

RECURSIVE extractMessagesFrom(_, _)
\* the loop over the methods ms of extractMessages
extractMessagesFrom(ms, r) ==
    IF ms = <<>> THEN r
    ELSE IF IsNil(Head(ms)) \/ Head(ms).Output = Nil
    THEN extractMessagesFrom(Tail(ms), r)
    ELSE extractMessagesFrom(Tail(ms),
           addNestedFields(MsgOf(Head(ms).Output).Fields,
                           addOutput(MsgOf(Head(ms).Output), r)))

extractMessages(svc) ==
    IF IsNil(svc) THEN <<>>
    ELSE extractMessagesFrom(svc.Methods, [messages |-> <<>>, processed |-> {}]).messages

RECURSIVE JoinArgs(_)
\* strings.Join(args, ", ")
JoinArgs(args) ==
    IF args = <<>> THEN <<>>
    ELSE IF Len(args) = 1 THEN Head(args)
    ELSE Head(args) \o <<",", " ">> \o JoinArgs(Tail(args))

extractInputArgs(input) ==
    IF Len(input.Fields) = 0 THEN <<>>
    ELSE LET arg(f) == f.Name \o <<":", " ">> \o BasicType(f.Kind)
                       \o (IF ~f.HasOptionalKeyword THEN <<"!">> ELSE <<>>)
         IN  <<"(">>
             \o JoinArgs([i \in 1..Len(input.Fields) |-> arg(input.Fields[i])])
             \o <<")">>

MutationPrefixes ==
    { <<"C","r","e","a","t","e">>, <<"U","p","d","a","t","e">>,
      <<"D","e","l","e","t","e">>, <<"A","d","d">>, <<"R","e","m","o","v","e">> }

\* the method type chosen by extractMethods
methodType(m) ==
    IF \E p \in MutationPrefixes : HasPrefix(m.Name, p) THEN "Mutation" ELSE "Query"

\* the methods of ms that are not nil
NonNil(ms) == LET notNil(m) == ~IsNil(m) IN SelectSeq(ms, notNil)

\* extractMethods dereferences a nil pointer: input.Fields in
\* extractInputArgs for a method without Input, method.Output.Desc for one
\* without Output
extractMethodsPanics(svc) ==
    /\ ~IsNil(svc)
    /\ \E i \in 1..Len(NonNil(svc.Methods)) :
         NonNil(svc.Methods)[i].Input = Nil \/ NonNil(svc.Methods)[i].Output = Nil

extractMethods(svc) ==
    IF IsNil(svc) THEN <<>>
    ELSE [i \in 1..Len(NonNil(svc.Methods)) |->
            LET method == NonNil(svc.Methods)[i]
            IN  [Name |-> method.Name,
                 Type |-> methodType(method),
                 InputArgs |-> extractInputArgs(MsgOf(method.Input)),
                 OutputType |-> MsgOf(method.Output).Name,
                 Comment |-> CommentsString(method.Comment)]]

hasMutationMethods(svc) ==
    IF IsNil(svc) THEN FALSE
    ELSE \E i \in 1..Len(NonNil(svc.Methods)) :
           \E p \in MutationPrefixes : HasPrefix(NonNil(svc.Methods)[i].Name, p)

extractAllMessagesFromFile(file) ==
    IF IsNil(file) THEN <<>>
    ELSE [i \in 1..Len(file.Messages) |->
            LET msg == MsgOf(file.Messages[i])
            IN  [MessageData(msg) EXCEPT
                   !.Comment = DropSlashes(CommentsString(msg.Comment))]]

prepareTemplateData(svc, file) ==
    [Services |-> <<[Name |-> svc.FullName, Federated |-> TRUE,
                     Methods |-> extractMethods(svc),
                     Messages |-> extractMessages(svc)]>>,
     MutationServices |-> hasMutationMethods(svc),
     Messages |-> extractAllMessagesFromFile(file),
     Source |-> file.Path]

(***************************************************************************)
(* Templates.  A path is the sequence of its elements, the empty path is   *)
(* <<>>.  A template file is "unreadable" (os.ReadFile fails),             *)
(* "unparsable" (Parse fails), or holds a template that parses: "ok", or   *)
(* "execfails", whose execution fails on data with MutationServices set    *)
(* and on a Schema with mutations.                                         *)
(***************************************************************************)
defaultTemplatePath == <<"templates", "graphql-service-schema.tmpl">>
CustomPath == <<"tmp", "custom.tmpl">>

\* filepath.Base
Base(path) == IF path = <<>> THEN "." ELSE path[Len(path)]

NoTemplate == [Name |-> Nil, Content |-> Nil]

\* loadTemplate returning the custom file's failure instead of falling back
loadTemplateNoFallback(path, custom, embedded) ==
    IF path # <<>> /\ custom = "unreadable"
    THEN [t |-> NoTemplate, err |-> "failed to read template", log |-> <<>>]
    ELSE IF path # <<>> /\ custom = "unparsable"
    THEN [t |-> NoTemplate, err |-> "failed to parse template", log |-> <<>>]
    ELSE IF path # <<>>
    THEN [t |-> [Name |-> Base(path), Content |-> custom], err |-> Nil,
          log |-> <<"Using custom template from path">>]
    ELSE IF embedded \in {"unreadable", "unparsable"}
    THEN [t |-> NoTemplate, err |-> "failed to read embedded template", log |-> <<>>]
    ELSE [t |-> [Name |-> Base(defaultTemplatePath), Content |-> embedded],
          err |-> Nil, log |-> <<"Using embedded template">>]

\* loadTemplate(templatePath) with the custom and the embedded file as found:
\* the template, the error and the lines logged
loadTemplate(path, custom, embedded) ==
    LET tried == IF path = <<>> THEN <<>>
                 ELSE IF custom = "unreadable" THEN <<"Could not read template">>
                 ELSE IF custom = "unparsable" THEN <<"Failed to parse template from file">>
                 ELSE <<"Using custom template from path">>
    IN  IF path # <<>> /\ custom \notin {"unreadable", "unparsable"}
        THEN [t |-> [Name |-> Base(path), Content |-> custom], err |-> Nil, log |-> tried]
        ELSE IF embedded = "unreadable"
        THEN [t |-> NoTemplate, err |-> "failed to read embedded template", log |-> tried]
        ELSE IF embedded = "unparsable"
        THEN [t |-> NoTemplate, err |-> "failed to parse embedded template", log |-> tried]
        ELSE [t |-> [Name |-> Base(defaultTemplatePath), Content |-> embedded],
              err |-> Nil, log |-> Append(tried, "Using embedded template")]

\* template.Execute: the text written for data, or an error
Execute(t, data) ==
    IF t.Content = "execfails" /\ data.MutationServices
    THEN [err |-> "template: error calling function", text |-> NilObj, crash |-> FALSE]
    ELSE [err |-> Nil, text |-> [Template |-> t.Content, Data |-> data], crash |-> FALSE]

\* fmt.Sprintf("%s.graphql", svc.Desc.FullName())
GraphqlFileName(svc) == svc.FullName \o sDotGraphql

(***************************************************************************)
(* The classifier inputs: a message of one drawn field followed by `name`. *)
(***************************************************************************)
ProbeNames == {sProduct, sUser, sAccount}
ProbeFieldNames == {f_user_id, f_id, f_label}

Probes ==
    [name : ProbeNames, entityOpt : OptValues, field : ProbeFieldNames,
     keyOpt : OptValues, optional : BOOLEAN]

ProbeMsg(p) ==
    [Message("probe.v1.Probe", p.name, cNone,
             << [(IF p.optional THEN Optional(p.field, "StringKind", cNone)
                  ELSE Scalar(p.field, "StringKind", cNone))
                   EXCEPT !.KeyOpt = p.keyOpt],
                Scalar(f_name, "StringKind", cNone) >>)
       EXCEPT !.EntityOpt = p.entityOpt]

\* The mapper inputs: a field of one drawn kind, with its repetition and
\* presence flags; a message field is of type Account, an enum field of
\* type Status.  UnknownKind is a kind outside the declared ones, Kind(0).
MapperInputs ==
    [kind : Kinds \cup {"UnknownKind"}, repeated : BOOLEAN, required : BOOLEAN,
     name : {f_name, f_user_id}]

MapperField(p) ==
    [Scalar(p.name, p.kind, cNone) EXCEPT
       !.IsList = p.repeated,
       !.HasPresence = p.required,
       !.HasOptionalKeyword = p.required /\ p.kind # "MessageKind",
       !.Message = IF p.kind = "MessageKind" THEN "widget.v1.Account" ELSE Nil,
       !.Enum = IF p.kind = "EnumKind" THEN "widget.v1.Status" ELSE Nil]

NoProbe == [name |-> sAccount, entityOpt |-> "absent", field |-> f_label,
            keyOpt |-> "absent", optional |-> FALSE]

(***************************************************************************)
(* The mock domain services.  A connect error is its code and its message; *)
(* a price is in cents.                                                    *)
(***************************************************************************)
sAlice == <<"a","l","i","c","e">>
sBob == <<"b","o","b">>
sLaptop == <<"l","a","p","t","o","p">>
sSmartphone == <<"s","m","a","r","t","p","h","o","n","e">>
sCarol == <<"c","a","r","o","l">>

\* the ids a request may carry
RequestIds == {<<>>, sAlice, sBob, sLaptop, sSmartphone, sCarol, <<" ">>}

ServiceRequests == [service : {"users", "product"}, id : RequestIds]

\* userServer.GetUser without the validation of the id
GetUserUnvalidated(req) ==
    [resp |-> [User |-> [UserId |-> req.UserId,
                         Name |-> <<"U","s","e","r"," ">> \o req.UserId]],
     err |-> NilObj]

\* userServer.GetUser on the request message req
GetUser(req) ==
    IF req.UserId = <<>>
    THEN [resp |-> NilObj,
          err |-> [Code |-> "InvalidArgument", Message |-> "user_id is required"]]
    ELSE IF req.UserId = sAlice
    THEN [resp |-> [User |-> [UserId |-> sAlice,
                              Name |-> <<"A","l","i","c","e"," ","J","o","h","n","s","o","n">>]],
          err |-> NilObj]
    ELSE IF req.UserId = sBob
    THEN [resp |-> [User |-> [UserId |-> sBob,
                              Name |-> <<"B","o","b"," ","S","m","i","t","h">>]],
          err |-> NilObj]
    ELSE [resp |-> [User |-> [UserId |-> req.UserId,
                              Name |-> <<"U","s","e","r"," ">> \o req.UserId]],
          err |-> NilObj]

\* productServer.GetProduct on the request message req
GetProduct(req) ==
    IF req.ProductId = <<>>
    THEN [resp |-> NilObj,
          err |-> [Code |-> "InvalidArgument", Message |-> "product_id is required"]]
    ELSE IF req.ProductId = sLaptop
    THEN [resp |-> [Product |-> [ProductId |-> sLaptop,
                                 Name |-> <<"H","i","g","h","-","P","e","r","f","o","r","m","a","n","c","e">>
                                           \o <<" ","L","a","p","t","o","p">>,
                                 Price |-> 129999]],
          err |-> NilObj]
    ELSE IF req.ProductId = sSmartphone
    THEN [resp |-> [Product |-> [ProductId |-> sSmartphone,
                                 Name |-> <<"A","d","v","a","n","c","e","d"," ","S","m","a","r","t","p","h","o","n","e">>,
                                 Price |-> 79999]],
          err |-> NilObj]
    ELSE [resp |-> [Product |-> [ProductId |-> req.ProductId,
                                 Name |-> <<"P","r","o","d","u","c","t"," ">> \o req.ProductId,
                                 Price |-> 9999]],
          err |-> NilObj]

(***************************************************************************)
(* The gateway's query resolvers.  What the downstream client returned is  *)
(* reply = [resp, err]: resp.Msg of a response holds the entity or nil.    *)
(* A resolver returns [model, err], and panic: TRUE when it dereferences a *)
(* nil pointer, where it returns nothing.                                  *)
(***************************************************************************)
ServiceError == [Code |-> "Unknown", Message |-> "service error"]

\* what productClient.GetProduct may return
ProductReplies ==
    { [resp |-> [Msg |-> [Product |-> p]], err |-> NilObj] :
        p \in {NilObj, GetProduct([ProductId |-> sLaptop]).resp.Product,
                [ProductId |-> sCarol, Name |-> <<>>, Price |-> 0]} }
    \cup {[resp |-> NilObj, err |-> ServiceError]}

\* what userClient.GetUser may return
UserReplies ==
    { [resp |-> [Msg |-> [User |-> u]], err |-> NilObj] :
        u \in {NilObj, GetUser([UserId |-> sAlice]).resp.User,
                [UserId |-> sCarol, Name |-> <<>>]} }
    \cup {[resp |-> NilObj, err |-> ServiceError]}

ResolverCalls ==
    [resolver : {"Product"}, reply : ProductReplies]
      \cup [resolver : {"User"}, reply : UserReplies]

\* queryResolver.Product once the client has returned reply
Product(reply) ==
    IF ~IsNil(reply.err) THEN [model |-> NilObj, err |-> reply.err, panic |-> FALSE]
    ELSE IF IsNil(reply.resp.Msg.Product)
    THEN [model |-> NilObj, err |-> NilObj, panic |-> TRUE]
    ELSE [model |-> [ProductID |-> reply.resp.Msg.Product.ProductId,
                     Name |-> reply.resp.Msg.Product.Name,
                     Price |-> reply.resp.Msg.Product.Price],
          err |-> NilObj, panic |-> FALSE]

\* queryResolver.User once the client has returned reply
User(reply) ==
    IF ~IsNil(reply.err) THEN [model |-> NilObj, err |-> reply.err, panic |-> FALSE]
    ELSE IF IsNil(reply.resp.Msg.User)
    THEN [model |-> NilObj, err |-> NilObj, panic |-> TRUE]
    ELSE [model |-> [UserID |-> reply.resp.Msg.User.UserId,
                     Name |-> reply.resp.Msg.User.Name],
          err |-> NilObj, panic |-> FALSE]

(***************************************************************************)
(* The state.                                                              *)
(***************************************************************************)
VARIABLES
    impl,          \* what runs: a generator, the classifier, the mappers, a service
    files,         \* gen.Files
    templatePath,  \* Options.TemplatePath
    customFile,    \* the file at templatePath
    embeddedFile,  \* the embedded templates/graphql-service-schema.tmpl
    probe,         \* the classifier's or the mappers' input, a service's request
    pc,            \* where the run is
    pos,           \* the next method (walk) or service (print, generate)
    services,      \* builder: the keys of g.services
    schemas,       \* builder: g.schemas
    template,      \* template generator: g.template
    generated,     \* the files of gen.NewGeneratedFile with what was written
    err,           \* the error returned, Nil if none
    log,           \* the lines logged
    verdict,       \* the classifier's or the mappers' results
    run,           \* builder: "first", or how Generate came to run once more
    previous       \* builder: the schemas and the files of the run before

vars == <<impl, files, templatePath, customFile, embeddedFile, probe, pc, pos,
          services, schemas, template, generated, err, log, verdict, run, previous>>

runs == <<run, previous>>

NoPrevious == [schemas |-> << >>, generated |-> <<>>]

inputs == <<impl, files, templatePath, customFile, embeddedFile, probe>>

\* the services of the files marked for generation, in order, each with its file
RECURSIVE GeneratedServices(_)
GeneratedServices(fs) ==
    IF fs = <<>> THEN <<>>
    ELSE (IF Head(fs).Generate
          THEN [i \in 1..Len(Head(fs).Services) |->
                  [svc |-> Head(fs).Services[i], file |-> Head(fs)]]
          ELSE <<>>)
         \o GeneratedServices(Tail(fs))

\* their methods, in order
RECURSIVE MethodsOf(_)
MethodsOf(ss) ==
    IF ss = <<>> THEN <<>> ELSE Head(ss).svc.Methods \o MethodsOf(Tail(ss))

WalkOrder == MethodsOf(GeneratedServices(files))

NoVerdict == [entity |-> FALSE, fields |-> <<>>, type |-> NewType(<<>>)]

TemplateCases ==
    {<<(<<>>), "ok">>} \cup {<<CustomPath, c>> : c \in {"unreadable", "unparsable", "ok", "execfails"}}

MethodLists == {q \in SeqsUpTo(WidgetMethods, MaxMethods) : NoRepeat(q)} \cup NilLists

\* what no run has touched yet
Fresh ==
    /\ pos = 1
    /\ services = {}
    /\ schemas = << >>
    /\ template = NoTemplate
    /\ generated = <<>>
    /\ err = Nil
    /\ log = <<>>
    /\ verdict = NoVerdict
    /\ run = "first"
    /\ previous = NoPrevious

InitBuilder ==
    /\ impl = "builder"
    /\ \E ms \in MethodLists, g1, g2 \in BOOLEAN : files = FilesOf(ms, g1, g2)
    /\ templatePath = <<>>
    /\ customFile = "ok"
    /\ embeddedFile \in {"ok", "unreadable", "unparsable", "execfails"}
    /\ probe = NoProbe
    /\ pc = "walk"
    /\ Fresh

InitTemplate ==
    /\ impl = "template"
    /\ \E ms \in MethodLists, g1, g2 \in BOOLEAN : files = FilesOf(ms, g1, g2)
    /\ \E tc \in TemplateCases : templatePath = tc[1] /\ customFile = tc[2]
    /\ embeddedFile \in {"ok", "unreadable", "unparsable"}
    /\ probe = NoProbe
    /\ pc = "new"
    /\ Fresh

InitClassify ==
    /\ impl = "classify"
    /\ files = FilesOf(<<>>, TRUE, TRUE)
    /\ templatePath = <<>>
    /\ customFile = "ok"
    /\ embeddedFile = "ok"
    /\ probe \in Probes
    /\ pc = "classify"
    /\ Fresh

InitMapper ==
    /\ impl = "mapper"
    /\ files = FilesOf(<<>>, TRUE, TRUE)
    /\ templatePath = <<>>
    /\ customFile = "ok"
    /\ embeddedFile = "ok"
    /\ probe \in MapperInputs
    /\ pc = "map"
    /\ Fresh

InitService ==
    /\ impl = "service"
    /\ files = FilesOf(<<>>, TRUE, TRUE)
    /\ templatePath = <<>>
    /\ customFile = "ok"
    /\ embeddedFile = "ok"
    /\ probe \in ServiceRequests
    /\ pc = "serve"
    /\ Fresh

InitGateway ==
    /\ impl = "gateway"
    /\ files = FilesOf(<<>>, TRUE, TRUE)
    /\ templatePath = <<>>
    /\ customFile = "ok"
    /\ embeddedFile = "ok"
    /\ probe \in ResolverCalls
    /\ pc = "resolve"
    /\ Fresh

Init ==
    InitBuilder \/ InitTemplate \/ InitClassify \/ InitMapper \/ InitService
      \/ InitGateway

(***************************************************************************)
(* The builder: Generate = walkSchemas, then printSchemas.                 *)
(***************************************************************************)
\* the generator after walkMethod left g
Walked(g) ==
    IF g.crash
    THEN /\ pc' = "crashed"
         /\ UNCHANGED <<pos, services, schemas>>
    ELSE /\ services' = g.services
         /\ schemas' = g.schemas
         /\ pos' = pos + 1
         /\ pc' = pc

\* one iteration of walkSchemas: walkMethod on the next method
WalkMethod ==
    /\ pc = "walk"
    /\ pos <= Len(WalkOrder)
    /\ Walked(walkMethod([services |-> services, schemas |-> schemas], WalkOrder[pos]))
    /\ UNCHANGED <<inputs, runs, template, generated, err, log, verdict>>

\* walkSchemas returning before its loops are through
WalkSchemasCutShort ==
    /\ pc = "walk"
    /\ pc' = "print"
    /\ pos' = 1
    /\ UNCHANGED <<inputs, runs, services, schemas, template, generated, err, log, verdict>>

\* walkSchemas returns nil; printSchemas starts
WalkSchemasDone ==
    /\ pc = "walk"
    /\ pos > Len(WalkOrder)
    /\ pc' = "print"
    /\ pos' = 1
    /\ UNCHANGED <<inputs, runs, services, schemas, template, generated, err, log, verdict>>

\* the key helpers printServiceSchema hands the template
idField(t) ==
    LET hit == {i \in 1..Len(t.Fields) :
                  HasSuffix(ToLower(t.Fields[i].Name), <<"i", "d">>)}
    IN  IF hit = {} THEN <<>>
        ELSE t.Fields[CHOOSE i \in hit : \A j \in hit : i <= j].Name

isIDField(name) == HasSuffix(ToLower(name), <<"i", "d">>)

\* the "schema" helper of printServiceSchema: g.schemas[svc], nil when the
\* service has no entry
schemaFunc(svc) ==
    IF svc.FullName \in DOMAIN schemas THEN schemas[svc.FullName] ELSE NilObj

\* t.Execute at the end of renderTemplate: the text written for the Schema
\* the template gets from the schema function, or an error
ExecuteOnSchema(content, schema) ==
    IF content = "execfails" /\ ~IsNil(schema) /\ schema.RootMutation.Fields # <<>>
    THEN [err |-> "template: error calling function", text |-> NilObj, crash |-> FALSE]
    ELSE [crash |-> FALSE, err |-> Nil, text |-> [Template |-> content, Data |-> schema]]

\* the builder's renderTemplate: the embedded template is read and parsed
\* at every call and executed on the service
renderTemplateOf(svc) ==
    IF embeddedFile = "unreadable"
    THEN [err |-> "failed to read template", text |-> NilObj, crash |-> FALSE]
    ELSE IF embeddedFile = "unparsable"
    THEN [err |-> "failed to parse template", text |-> NilObj, crash |-> FALSE]
    ELSE ExecuteOnSchema(embeddedFile, schemaFunc(svc))

\* the lines main logs from the return of Generate without error to the
\* call of newGenerator in the next invocation of the plugin; the template
\* path is left out of the last one
mainLog ==
    <<"Generation completed successfully", "Starting protoc-gen-graphql...",
      "Plugin started", "Using template path">>

\* the loop over the services going on to the next one after a failure
RenderedContinuing(svc, r) ==
    IF r.crash
    THEN /\ pc' = "crashed"
         /\ UNCHANGED <<generated, err, pos>>
    ELSE /\ generated' = Append(generated, [Name |-> GraphqlFileName(svc), Text |-> r.text])
         /\ err' = IF r.err # Nil THEN r.err ELSE err
         /\ pc' = pc
         /\ pos' = pos + 1

\* the file gen.NewGeneratedFile made for svc and what rendering r left in it
Rendered(svc, r) ==
    IF r.crash
    THEN /\ pc' = "crashed"
         /\ UNCHANGED <<generated, err, pos>>
    ELSE /\ generated' = Append(generated, [Name |-> GraphqlFileName(svc), Text |-> r.text])
         /\ err' = r.err
         /\ IF r.err # Nil THEN pc' = "error" /\ pos' = pos
                           ELSE pc' = pc /\ pos' = pos + 1

\* the file names written so far
GeneratedNames == {generated[k].Name : k \in 1..Len(generated)}

\* printSchemas ranging over the map g.schemas in place of plugin.Files: the
\* next service is any one that has not been printed
PrintServiceSchemaInMapOrder ==
    /\ pc = "print"
    /\ pos <= Len(GeneratedServices(files))
    /\ \E i \in 1..Len(GeneratedServices(files)) :
         /\ GraphqlFileName(GeneratedServices(files)[i].svc) \notin GeneratedNames
         /\ Rendered(GeneratedServices(files)[i].svc,
                     renderTemplateOf(GeneratedServices(files)[i].svc))
    /\ UNCHANGED <<inputs, runs, services, schemas, template, log, verdict>>

\* one iteration of printSchemas: printServiceSchema on the next service
PrintServiceSchema ==
    /\ pc = "print"
    /\ pos <= Len(GeneratedServices(files))
    /\ Rendered(GeneratedServices(files)[pos].svc,
                renderTemplateOf(GeneratedServices(files)[pos].svc))
    /\ UNCHANGED <<inputs, runs, services, schemas, template, log, verdict>>

PrintSchemasDone ==
    /\ pc = "print"
    /\ pos > Len(GeneratedServices(files))
    /\ pc' = "done"
    /\ UNCHANGED <<inputs, runs, pos, services, schemas, template, generated, err, log, verdict>>

\* the plugin invoked once more on the same descriptor set: the main of the
\* first invocation logs that Generate returned no error and ends, the main
\* of the second logs its start, makes a new Generator (empty maps) and
\* calls Generate
Rerun ==
    /\ impl = "builder" /\ pc = "done" /\ run = "first"
    /\ run' = "anew"
    /\ previous' = [schemas |-> schemas, generated |-> generated]
    /\ pc' = "walk"
    /\ pos' = 1
    /\ services' = {}
    /\ schemas' = << >>
    /\ generated' = <<>>
    /\ log' = log \o mainLog
    /\ UNCHANGED <<inputs, template, err, verdict>>

\* Generate called once more on the same Generator with a Plugin of the same
\* descriptor set: g.services and g.schemas are as the first call left them
Regenerate ==
    /\ impl = "builder" /\ pc = "done" /\ run = "first"
    /\ run' = "again"
    /\ previous' = [schemas |-> schemas, generated |-> generated]
    /\ pc' = "walk"
    /\ pos' = 1
    /\ generated' = <<>>
    /\ UNCHANGED <<inputs, services, schemas, template, err, log, verdict>>

(***************************************************************************)
(* The template generator: newGenerator, then Generate.                    *)
(***************************************************************************)
\* newGenerator handing out a Generator whatever loadTemplate returned
LoadedIgnoringError(r) ==
    /\ log' = log \o r.log
    /\ err' = err
    /\ template' = r.t
    /\ pc' = "generate"

\* newGenerator with r what loadTemplate returned
Loaded(r) ==
    /\ log' = log \o r.log
    /\ IF r.err # Nil
       THEN /\ err' = "failed to load template"
            /\ template' = template
            /\ pc' = "error"
       ELSE /\ err' = err
            /\ template' = r.t
            /\ pc' = "generate"

NewGenerator ==
    /\ pc = "new"
    /\ Loaded(loadTemplate(templatePath, customFile, embeddedFile))
    /\ UNCHANGED <<inputs, runs, pos, services, schemas, generated, verdict>>

\* Generator.renderTemplate of generator.go
renderTemplate(e) ==
    IF extractMethodsPanics(e.svc) THEN [err |-> Nil, text |-> NilObj, crash |-> TRUE]
    ELSE Execute(template, prepareTemplateData(e.svc, e.file))

\* the lines renderTemplate logs: those of prepareTemplateData, none when
\* extractMethods panics, which it does before any message is looked at
renderTemplateLog(e) ==
    IF extractMethodsPanics(e.svc) THEN <<>>
    ELSE DataLog(prepareTemplateData(e.svc, e.file))

\* one iteration of Generate: generateServiceSchema on the next service
GenerateServiceSchema ==
    /\ pc = "generate"
    /\ pos <= Len(GeneratedServices(files))
    /\ Rendered(GeneratedServices(files)[pos].svc,
                renderTemplate(GeneratedServices(files)[pos]))
    /\ log' = log \o renderTemplateLog(GeneratedServices(files)[pos])
    /\ UNCHANGED <<inputs, runs, services, schemas, template, verdict>>

GenerateDone ==
    /\ pc = "generate"
    /\ pos > Len(GeneratedServices(files))
    /\ pc' = "done"
    /\ UNCHANGED <<inputs, runs, pos, services, schemas, template, generated, err, log, verdict>>

(***************************************************************************)
(* The federation classifier applied to the drawn message.                 *)
(***************************************************************************)
Classify ==
    /\ pc = "classify"
    /\ verdict' = [entity |-> hasEntityOption(ProbeMsg(probe)),
                   fields |-> extractFields(ProbeMsg(probe)),
                   type |-> getOutputType(newSchema, ProbeMsg(probe), 1).t]
    /\ log' = log \o EntityLog(ProbeMsg(probe)) \o KeyLog(ProbeMsg(probe).Fields)
    /\ pc' = "done"
    /\ UNCHANGED <<inputs, runs, pos, services, schemas, template, generated, err>>

(***************************************************************************)
(* The type-kind mappers applied to the drawn field.                       *)
(***************************************************************************)
MapKind ==
    /\ pc = "map"
    /\ verdict' = [byKind |-> ProtoKindToGraphQL(probe.kind, probe.repeated,
                                                 probe.required),
                   byName |-> GetGraphQLType(KindString(probe.kind), probe.repeated,
                                             probe.required),
                   fieldType |-> getFieldType(newSchema, MapperField(probe), 0).type,
                   extracted |-> extractField(MapperField(probe)).GraphQLType]
    /\ log' = log \o KeyLog(<<MapperField(probe)>>)
    /\ pc' = "done"
    /\ UNCHANGED <<inputs, runs, pos, services, schemas, template, generated, err>>

(***************************************************************************)
(* The mock domain services answering the drawn request.                   *)
(***************************************************************************)
Serve ==
    /\ pc = "serve"
    /\ verdict' = IF probe.service = "users" THEN GetUser([UserId |-> probe.id])
                  ELSE GetProduct([ProductId |-> probe.id])
    /\ pc' = "done"
    /\ UNCHANGED <<inputs, runs, pos, services, schemas, template, generated, err, log>>

(***************************************************************************)
(* The gateway's resolvers on the drawn reply of the downstream service.   *)
(***************************************************************************)
\* the resolver having returned r, or having panicked
Resolved(r) ==
    /\ verdict' = r
    /\ pc' = IF r.panic THEN "crashed" ELSE "done"

Resolve ==
    /\ pc = "resolve"
    /\ Resolved(IF probe.resolver = "Product" THEN Product(probe.reply)
                ELSE User(probe.reply))
    /\ UNCHANGED <<inputs, runs, pos, services, schemas, template, generated, err, log>>

Next ==
    \/ WalkMethod
    \/ WalkSchemasDone
    \/ PrintServiceSchema
    \/ PrintSchemasDone
    \/ Rerun
    \/ Regenerate
    \/ NewGenerator
    \/ GenerateServiceSchema
    \/ GenerateDone
    \/ Classify
    \/ MapKind
    \/ Serve
    \/ Resolve

Spec == Init /\ [][Next]_vars

(***************************************************************************)
(* Properties.                                                             *)
(***************************************************************************)
\* the names of the entries of a list, in order
Names(list) == [i \in 1..Len(list) |-> list[i].Name]

Range(q) == {q[i] : i \in 1..Len(q)}

Unique(q) == \A i, j \in 1..Len(q) : q[i] = q[j] => i = j

\* the methods walkSchemas has walked in this call of Generate
WalkedNow ==
    IF impl # "builder" THEN <<>>
    ELSE IF pc \in {"walk", "crashed"} THEN SubSeq(WalkOrder, 1, pos - 1)
    ELSE WalkOrder

\* the methods walked into the generator's schemas, an earlier call of
\* Generate on the same Generator included
WalkedMethods == IF run = "again" THEN WalkOrder \o WalkedNow ELSE WalkedNow

\* those of one service
WalkedOf(svc) ==
    LET ofSvc(m) == m.Parent = svc IN SelectSeq(WalkedMethods, ofSvc)

\* the template data of the services Generate has rendered
RenderedData ==
    IF impl # "template" THEN {}
    ELSE {generated[i].Text.Data : i \in {k \in 1..Len(generated) : ~IsNil(generated[k].Text)}}

RecognizedPrefixes == {<<"g","e","t">>, <<"l","i","s","t">>, <<"s","e","a","r","c","h">>}

StartsLikeQuery(name) == \E p \in RecognizedPrefixes : HasPrefix(ToLower(name), p)

\* C1: every method is classified as a Query if and only if its name, compared
\* case-insensitively, starts with get, list or search, and as a Mutation
\* otherwise: on the root types the builder fills and in the method types
\* extractMethods hands the template.
C1_QueryIffRecognizedPrefix ==
    /\ \A i \in 1..Len(WalkedMethods) :
         LET m == WalkedMethods[i]
             s == schemas[m.Parent]
         IN  /\ getMethodName(m) \in Range(Names(s.RootQuery.Fields))
                  <=> StartsLikeQuery(m.Name)
             /\ getMethodName(m) \in Range(Names(s.RootMutation.Fields))
                  <=> ~StartsLikeQuery(m.Name)
    /\ \A d \in RenderedData :
         \A i \in 1..Len(d.Services[1].Methods) :
           LET md == d.Services[1].Methods[i]
           IN  md.Type = IF StartsLikeQuery(md.Name) THEN "Query" ELSE "Mutation"

\* the messages of the descriptor set that lie on a cycle of message fields
CyclicNames == {sNode, sTree, sBranch}

\* the outputs from which a cycle is reached, with the cyclic names reached
CyclicReach(output) ==
    IF output = "widget.v1.Node" THEN {sNode}
    ELSE IF output = "widget.v1.Tree" THEN {sTree, sBranch}
    ELSE {}

Count(q, x) == Cardinality({i \in 1..Len(q) : q[i] = x})

\* C2: the traversal of a message graph with a cycle terminates, and the
\* cyclic message is registered exactly once.
C2_CyclesTerminate ==
    /\ impl \in {"builder", "template"} => pc # "crashed"
    /\ \A i \in 1..Len(WalkedMethods) :
         \A n \in CyclicReach(WalkedMethods[i].Output) :
           Count(Names(schemas[WalkedMethods[i].Parent].Types), n) = 1
    /\ \A d \in RenderedData :
         \A n \in CyclicNames : Count(Names(d.Services[1].Messages), n) <= 1

\* C3: within one Schema no two Types share a name, no two Inputs share a
\* name and no two Enums share a name, whatever methods were walked; the
\* message list of extractMessages holds no name twice either.
C3_NamesUnique ==
    /\ \A svc \in services :
         /\ Unique(Names(schemas[svc].Types))
         /\ Unique(Names(schemas[svc].Inputs))
         /\ Unique(Names(schemas[svc].Enums))
    /\ \A d \in RenderedData : Unique(Names(d.Services[1].Messages))

EnumIds == {"widget.v1.Status"}

\* C4: a message or enum whose name is already registered in the Schema is
\* answered with the existing entry, and the Schema is left as it was: no
\* entry is altered, moved or appended, whatever fields the descriptor has.
C4_FirstRegistrationWins ==
    \A svc \in services :
      /\ \A id \in MsgIds :
           IndexOfName(schemas[svc].Types, MsgOf(id).Name) # 0 =>
             getOutputType(schemas[svc], MsgOf(id), 1) =
               [s |-> schemas[svc],
                t |-> schemas[svc].Types[IndexOfName(schemas[svc].Types, MsgOf(id).Name)],
                crash |-> FALSE]
      /\ \A id \in EnumIds :
           IndexOfName(schemas[svc].Enums, EnumOf(id).Name) # 0 =>
             getEnumType(schemas[svc], EnumOf(id)) =
               [s |-> schemas[svc], name |-> EnumOf(id).Name]

\* ListItem registered Outer.Item as "Item"; GetItem, whose output is the
\* other message named Item, was answered with that entry
C4_ItemReused ==
    /\ impl = "builder"
    /\ sWidgetSvc \in services
    /\ Names(schemas[sWidgetSvc].RootQuery.Fields) = <<ToLower(sList) \o sItem, ToLower(sGet) \o sItem>>
    /\ Names(schemas[sWidgetSvc].Types) = <<sItem>>
    /\ Names(schemas[sWidgetSvc].Types[1].Fields) = <<f_label>>
    /\ schemas[sWidgetSvc].RootQuery.Fields[2].Type = sItem

\* C5: a message whose explicit entity option is present and readable (it
\* is set on the message, the descriptor carries its value) has that value
\* as its entity flag, also when it is named Product, Order or User.
C5_ExplicitEntityWins ==
    (impl = "classify" /\ pc = "done" /\ probe.entityOpt # "absent") =>
      verdict.entity = (probe.entityOpt = "true")

\* C6: a field whose explicit key option is present and readable (it is
\* set on the field, the descriptor carries its value) has that value as
\* its key flag; when the option is absent, the _id suffix decides.
C6_ExplicitKeyWins ==
    (impl = "classify" /\ pc = "done") =>
      /\ probe.keyOpt # "absent" =>
           verdict.fields[1].Key = (probe.keyOpt = "true")
      /\ probe.keyOpt = "absent" =>
           verdict.fields[1].Key = HasSuffix(probe.field, <<"_", "i", "d">>)
      /\ ~verdict.fields[2].Key

\* C7: on a message without explicit key or entity metadata a field named
\* user_id is marked a key and the message is marked a federated entity.
C7_UserIdMakesEntity ==
    (/\ impl = "classify" /\ pc = "done"
     /\ probe.field = f_user_id
     /\ probe.keyOpt = "absent" /\ probe.entityOpt = "absent") =>
      /\ verdict.fields[1].Key
      /\ verdict.entity
      /\ verdict.type.IsFederatedEntity

\* the name of a field matches the key heuristic
KeyShaped(name) == HasSuffix(name, <<"_", "i", "d">>) \/ HasSuffix(name, <<"I", "d">>)

\* C8: a registered output Type is a federated entity if and only if one of
\* its fields has a key-shaped name, whatever the field's presence flag.
C8_EntityIffKeyShapedField ==
    \A svc \in services :
      \A i \in 1..Len(schemas[svc].Types) :
        schemas[svc].Types[i].IsFederatedEntity
          <=> \E j \in 1..Len(schemas[svc].Types[i].Fields) :
                KeyShaped(schemas[svc].Types[i].Fields[j].Name)

\* the elements of w that are in q, in the order of w
Among(w, q) == LET inQ(x) == x \in Range(q) IN SelectSeq(w, inQ)

\* C9: every walked method has exactly one root field, on RootQuery or on
\* RootMutation and never on both, and each root type lists its fields in
\* the order the methods are declared.
C9_OneRootFieldPerMethod ==
    /\ \A i \in 1..Len(WalkedMethods) : WalkedMethods[i].Parent \in services
    /\ \A svc \in services :
         /\ Len(schemas[svc].RootQuery.Fields) + Len(schemas[svc].RootMutation.Fields)
              = Len(WalkedOf(svc))
         /\ \A i \in 1..Len(WalkedOf(svc)) :
              (getMethodName(WalkedOf(svc)[i]) \in Range(Names(schemas[svc].RootQuery.Fields)))
                # (getMethodName(WalkedOf(svc)[i])
                     \in Range(Names(schemas[svc].RootMutation.Fields)))
         /\ Among([i \in 1..Len(WalkedOf(svc)) |-> getMethodName(WalkedOf(svc)[i])],
                  Names(schemas[svc].RootQuery.Fields))
              = Names(schemas[svc].RootQuery.Fields)
         /\ Among([i \in 1..Len(WalkedOf(svc)) |-> getMethodName(WalkedOf(svc)[i])],
                  Names(schemas[svc].RootMutation.Fields))
              = Names(schemas[svc].RootMutation.Fields)

\* CreateWidget, GetWidget and GetProduct walked: one field each, two roots
C9_BothRootsFilled ==
    /\ impl = "builder" /\ pc = "print"
    /\ services = {sWidgetSvc, sProductSvc}
    /\ Names(schemas[sWidgetSvc].RootMutation.Fields) = <<ToLower(sCreate) \o sWidget>>
    /\ Names(schemas[sWidgetSvc].RootQuery.Fields) = <<ToLower(sGet) \o sWidget>>
    /\ Names(schemas[sProductSvc].RootQuery.Fields) = <<ToLower(sGet) \o sProduct>>
    /\ schemas[sProductSvc].RootMutation.Fields = <<>>

CustomFailureLines == {"Could not read template", "Failed to parse template from file"}

\* C10: with a custom template path whose file cannot be read or parsed,
\* loading logs the failure and yields the embedded template without error,
\* and what is generated is what is generated without a custom path.
C10_TemplateFallback ==
    (/\ impl = "template" /\ pc # "new"
     /\ templatePath # <<>> /\ customFile \in {"unreadable", "unparsable"}) =>
      /\ log # <<>> /\ log[1] \in CustomFailureLines
      /\ (pc = "error") = (loadTemplate(<<>>, customFile, embeddedFile).err # Nil)
      /\ pc # "error" => template = loadTemplate(<<>>, customFile, embeddedFile).t
      /\ embeddedFile = "ok" =>
           /\ err = Nil
           /\ template = [Name |-> "graphql-service-schema.tmpl", Content |-> "ok"]
           /\ \A i \in 1..Len(generated) :
                generated[i].Text =
                  [Template |-> "ok",
                   Data |-> prepareTemplateData(GeneratedServices(files)[i].svc,
                                                GeneratedServices(files)[i].file)]

\* an unreadable custom file, and both services rendered from the embedded template
C10_FellBackAndGenerated ==
    /\ impl = "template" /\ pc = "done"
    /\ templatePath = CustomPath /\ customFile = "unreadable"
    /\ Len(log) >= 2
    /\ SubSeq(log, 1, 2) = <<"Could not read template", "Using embedded template">>
    /\ Len(generated) = 2
    /\ generated[1].Text.Template = "ok"
    /\ err = Nil

\* C11: when the embedded template cannot be read or parsed, newGenerator
\* returns an error and no Generator, and no service schema is rendered,
\* whether no custom path was given or the custom path failed.
C11_EmbeddedFailureFailsConstruction ==
    (/\ impl = "template" /\ pc # "new"
     /\ embeddedFile \in {"unreadable", "unparsable"}
     /\ (templatePath = <<>> \/ customFile \in {"unreadable", "unparsable"})) =>
      /\ pc = "error"
      /\ err = "failed to load template"
      /\ template = NoTemplate
      /\ generated = <<>>

\* the custom file failed to parse, then the embedded one could not be read
C11_BothTemplatesFailed ==
    /\ impl = "template" /\ pc = "error"
    /\ templatePath = CustomPath /\ customFile = "unparsable"
    /\ embeddedFile = "unreadable"
    /\ log = <<"Failed to parse template from file">>
    /\ err = "failed to load template"
    /\ Len(GeneratedServices(files)) > 0 /\ generated = <<>>

\* the errors of reading, parsing and executing a template, as they are made
TemplateErrors ==
    {"template: error calling function", "failed to read template",
     "failed to parse template"}

\* C12: when rendering a service's schema fails, the error Generate returns
\* is wrapped with the failing service's name and is not the bare template
\* error.
C12_RenderErrorNamesService ==
    (impl \in {"template", "builder"} /\ pc = "error" /\ generated # <<>>) =>
      err \notin TemplateErrors

C14_SecondCallSameModel ==
    (impl = "builder" /\ run = "again" /\ pc \in {"print", "done"}) =>
      schemas = previous.schemas

EndsWithBang(s) == s # <<>> /\ s[Len(s)] = "!"

\* a type string without its trailing "!"
Nullable(s) == IF EndsWithBang(s) THEN SubSeq(s, 1, Len(s) - 1) ELSE s

\* the element type is wrapped in [...]
Listed(s) == Len(Nullable(s)) >= 2 /\ Head(Nullable(s)) = "[" /\ Nullable(s)[Len(Nullable(s))] = "]"

\* a type string without its list and non-null decoration
BaseOf(s) ==
    IF Listed(s) THEN SubSeq(Nullable(s), 2, Len(Nullable(s)) - 1) ELSE Nullable(s)

\* C15: for every kind and repetition flag the mapper's type string ends
\* with "!" if and only if the field is required; with repetition it is [T]!.
C15_BangIffRequired ==
    (impl = "mapper" /\ pc = "done") =>
      /\ EndsWithBang(verdict.byKind) <=> probe.required
      /\ EndsWithBang(verdict.byName) <=> probe.required
      /\ EndsWithBang(verdict.fieldType) <=> probe.required
      /\ (probe.repeated /\ probe.required) =>
           (Listed(verdict.byKind) /\ Listed(verdict.byName))

\* C16: a repeated field, be its element a scalar, an enum or a message, has
\* a type string with the element type wrapped in [...].
C16_RepeatedIsListed ==
    (impl = "mapper" /\ pc = "done" /\ probe.repeated) =>
      /\ Listed(verdict.fieldType)
      /\ Listed(verdict.extracted)

\* C17: a string field is typed String or ID, and ID only when its name is
\* identifier-shaped (ends in _id or Id).
C17_IdOnlyForIdShapedNames ==
    (impl = "mapper" /\ pc = "done" /\ probe.kind = "StringKind") =>
      /\ BaseOf(verdict.fieldType) \in {gString, gID}
      /\ BaseOf(verdict.byKind) \in {gString, gID}
      /\ BaseOf(verdict.byName) \in {gString, gID}
      /\ ~KeyShaped(probe.name) =>
           /\ BaseOf(verdict.fieldType) # gID
           /\ BaseOf(verdict.byKind) # gID
           /\ BaseOf(verdict.byName) # gID

IntKinds ==
    {"Int32Kind", "Sint32Kind", "Uint32Kind", "Int64Kind", "Sint64Kind", "Uint64Kind",
     "Sfixed32Kind", "Fixed32Kind", "Sfixed64Kind", "Fixed64Kind"}

\* the base type the mapper is to give a kind; string and message kinds are
\* left open here
ExpectedBase(kind) ==
    CASE kind \in IntKinds -> {gInt}
      [] kind \in {"FloatKind", "DoubleKind"} -> {gFloat}
      [] kind = "BoolKind" -> {gBoolean}
      [] kind \in {"BytesKind", "EnumKind"} -> {gString}
      [] kind \in {"GroupKind", "UnknownKind"} -> {gString}
      [] OTHER -> {BaseOf(verdict.byKind), BaseOf(verdict.byName)}

\* C18: the mapper gives every kind a type: Int for the integer kinds, Float
\* for float and double, Boolean for bool, String for bytes and enum and
\* for every unknown or unsupported kind.
C18_MapperTotal ==
    (impl = "mapper" /\ pc = "done") =>
      /\ BaseOf(verdict.byKind) \in ExpectedBase(probe.kind)
      /\ BaseOf(verdict.byName) \in ExpectedBase(probe.kind)

\* the Product type the scenario is to register
ScenarioProduct(types) ==
    \E i \in 1..Len(types) :
      /\ types[i].Name = sProduct
      /\ types[i].IsFederatedEntity
      /\ types[i].KeyFields = <<"p","r","o","d","u","c","t","I","d">>
      /\ Names(types[i].Fields) = << <<"p","r","o","d","u","c","t","I","d">>, f_name, f_price >>
      /\ [j \in 1..Len(types[i].Fields) |-> types[i].Fields[j].Type]
           = << <<"I","D","!">>, gString, gFloat >>

\* C19: for GetProduct(GetProductRequest{product_id}) returning
\* GetProductResponse{product: Product{product_id, name, price}} the built
\* schema has a query root field typed Product with one input argument and
\* a type Product, federated entity with key productId, of the fields
\* productId: ID!, name: String, price: Float.
C19_ProductScenario ==
    (impl = "builder" /\ sProductSvc \in services) =>
      /\ \E i \in 1..Len(schemas[sProductSvc].RootQuery.Fields) :
           /\ schemas[sProductSvc].RootQuery.Fields[i].Type = sProduct
           /\ Len(schemas[sProductSvc].RootQuery.Fields[i].Inputs) = 1
      /\ schemas[sProductSvc].RootMutation.Fields = <<>>
      /\ ScenarioProduct(schemas[sProductSvc].Types)

\* a method of the drawn service is nil or lacks its Input or Output
HasNil ==
    \E i \in 1..Len(files[1].Services[1].Methods) :
      LET m == files[1].Services[1].Methods[i]
      IN  IsNil(m) \/ m.Input = Nil \/ m.Output = Nil

\* the names of the methods that are whole
WholeMethodNames(ms) ==
    LET whole(m) == ~IsNil(m) /\ m.Input # Nil /\ m.Output # Nil
    IN  Names(SelectSeq(ms, whole))

\* C20: a nil method and a nil input or output message are skipped: the
\* generation neither aborts nor crashes, and every method that is whole is
\* still processed into the schema.
C20_NilsSkipped ==
    (impl \in {"builder", "template"} /\ HasNil) =>
      /\ pc # "crashed"
      /\ \A d \in RenderedData :
           d.Services[1].Name = sWidgetSvc =>
             Names(d.Services[1].Methods) = WholeMethodNames(files[1].Services[1].Methods)
      /\ (impl = "builder" /\ files[1].Generate /\ pc \in {"print", "done"}) =>
           Len(schemas[sWidgetSvc].RootQuery.Fields)
             + Len(schemas[sWidgetSvc].RootMutation.Fields)
             >= Len(WholeMethodNames(files[1].Services[1].Methods))

\* the messages a message's fields are typed with
FieldMessages(id) ==
    {MsgOf(id).Fields[i].Message : i \in 1..Len(MsgOf(id).Fields)} \ {Nil}

\* the messages reached from ids through message-typed fields, ids included
RECURSIVE ReachIds(_)
ReachIds(ids) ==
    LET step == ids \cup UNION {FieldMessages(id) : id \in ids}
    IN  IF step = ids THEN ids ELSE ReachIds(step)

\* the messages reached from the inputs and outputs of the methods ms
ReachedFrom(ms) ==
    ReachIds(UNION {{ms[i].Input, ms[i].Output} : i \in {k \in 1..Len(ms) : ~IsNil(ms[k])}}
             \ {Nil})

\* their names, and the names of the enums their fields are typed with
ReachedNames(ms) == {MsgOf(id).Name : id \in ReachedFrom(ms)}

ReachedEnumNames(ms) ==
    {EnumOf(e).Name :
       e \in UNION {{MsgOf(id).Fields[i].Enum : i \in 1..Len(MsgOf(id).Fields)} :
                      id \in ReachedFrom(ms)} \ {Nil}}

\* the Input names of the requests of ms
RequestInputNames(ms) ==
    {getInputTypeName(MsgOf(ms[i].Input)) :
       i \in {k \in 1..Len(ms) : ~IsNil(ms[k]) /\ ms[k].Input # Nil}}

\* the methods of the service named name
MethodsOfService(name) ==
    LET e == CHOOSE x \in Range(GeneratedServices(files)) : x.svc.FullName = name
    IN  e.svc.Methods

\* C21: every Type, Input, Enum and message entry handed to the template for
\* a service is the input or output message of one of the service's methods
\* or is reached from one through message- or enum-typed fields; a message
\* of the file that no method reaches is not in the model.
C21_OnlyReachedMessages ==
    /\ \A svc \in services :
         /\ Range(Names(schemas[svc].Types)) \subseteq ReachedNames(WalkedOf(svc))
         /\ Range(Names(schemas[svc].Inputs)) \subseteq RequestInputNames(WalkedOf(svc))
         /\ Range(Names(schemas[svc].Enums)) \subseteq ReachedEnumNames(WalkedOf(svc))
    /\ \A d \in RenderedData :
         /\ Range(Names(d.Services[1].Messages))
              \subseteq ReachedNames(MethodsOfService(d.Services[1].Name))
         /\ Range(Names(d.Messages))
              \subseteq ReachedNames(MethodsOfService(d.Services[1].Name))

\* the Input name the request message named name is to get
DerivedInputName(name) ==
    (IF HasSuffix(name, sRequest) THEN SubSeq(name, 1, Len(name) - Len(sRequest))
     ELSE name) \o sInput

\* the request of the first method of ms whose derived Input name is n
FirstRequestNamed(ms, n) ==
    LET hit == {i \in 1..Len(ms) : DerivedInputName(MsgOf(ms[i].Input).Name) = n}
    IN  MsgOf(ms[CHOOSE i \in hit : \A j \in hit : i <= j].Input)

\* the sequence q with every element kept at its first occurrence only
FirstOccurrences(q) ==
    LET first(i) == \A j \in 1..(i - 1) : q[j] # q[i]
        RECURSIVE keep(_)
        keep(i) == IF i > Len(q) THEN <<>>
                   ELSE (IF first(i) THEN <<q[i]>> ELSE <<>>) \o keep(i + 1)
    IN  keep(1)

\* C22: the Input of a method's request message is named by the message
\* name with a trailing Request stripped and Input appended; an Input of
\* that name already registered is reused and the Schema left as it is,
\* otherwise a new Input is registered whose fields are the request
\* message's fields in declaration order.
C22_InputResolution ==
    \A svc \in services :
      /\ Names(schemas[svc].Inputs)
           = FirstOccurrences([i \in 1..Len(WalkedOf(svc)) |->
                                 DerivedInputName(MsgOf(WalkedOf(svc)[i].Input).Name)])
      /\ \A i \in 1..Len(schemas[svc].Inputs) :
           Names(schemas[svc].Inputs[i].Fields)
             = [k \in 1..Len(FirstRequestNamed(WalkedOf(svc), schemas[svc].Inputs[i].Name).Fields)
                  |-> JSONName(FirstRequestNamed(WalkedOf(svc),
                                                 schemas[svc].Inputs[i].Name).Fields[k])]
      /\ \A id \in MsgIds :
           IndexOfName(schemas[svc].Inputs, DerivedInputName(MsgOf(id).Name)) # 0 =>
             getInputType(schemas[svc], MsgOf(id)) =
               [s |-> schemas[svc],
                input |-> schemas[svc].Inputs[IndexOfName(schemas[svc].Inputs,
                                                DerivedInputName(MsgOf(id).Name))],
                crash |-> FALSE]

\* GetWidget registered GetWidgetInput from GetWidgetRequest; SearchWidget,
\* whose request is the message GetWidget, was answered with that Input
C22_InputReused ==
    /\ impl = "builder" /\ pc = "print"
    /\ sWidgetSvc \in services
    /\ Names(schemas[sWidgetSvc].RootQuery.Fields)
         = <<ToLower(sGet) \o sWidget, ToLower(sSearch) \o sWidget>>
    /\ Names(schemas[sWidgetSvc].Inputs) = <<sGet \o sWidget \o sInput>>
    /\ Names(schemas[sWidgetSvc].Inputs[1].Fields) = <<<<"w","i","d","g","e","t","I","d">>>>
    /\ schemas[sWidgetSvc].RootQuery.Fields[2].Inputs[1] = schemas[sWidgetSvc].Inputs[1]

\* C23: GetUser and GetProduct return an InvalidArgument error, with the
\* message user_id is required or product_id is required, and no response
\* exactly when the requested id is empty; for every other id they return a
\* response whose entity carries the id of the request.
C23_IdValidated ==
    (impl = "service" /\ pc = "done") =>
      /\ probe.id = <<>> <=> ~IsNil(verdict.err)
      /\ probe.id = <<>> <=> IsNil(verdict.resp)
      /\ probe.id = <<>> =>
           verdict.err = [Code |-> "InvalidArgument",
                          Message |-> IF probe.service = "users"
                                      THEN "user_id is required"
                                      ELSE "product_id is required"]
      /\ (probe.id # <<>> /\ probe.service = "users") => verdict.resp.User.UserId = probe.id
      /\ (probe.id # <<>> /\ probe.service = "product") =>
           verdict.resp.Product.ProductId = probe.id

\* GetUser was asked with an empty id and refused
C23_EmptyUserIdRefused ==
    /\ impl = "service" /\ pc = "done"
    /\ probe.service = "users" /\ probe.id = <<>>
    /\ IsNil(verdict.resp)
    /\ verdict.err.Code = "InvalidArgument"

\* the names of the files of the services of gen.Files marked for
\* generation (generate = TRUE) or not marked, in file and declaration order
RECURSIVE ServiceFileNames(_, _)
ServiceFileNames(fs, generate) ==
    IF fs = <<>> THEN <<>>
    ELSE (IF Head(fs).Generate = generate
          THEN [i \in 1..Len(Head(fs).Services) |->
                  Head(fs).Services[i].FullName \o sDotGraphql]
          ELSE <<>>)
         \o ServiceFileNames(Tail(fs), generate)

\* C24: when rendering the schema of a service fails, Generate returns that
\* error at once: the failed service is the last one a file was made for, no
\* service after it in file and declaration order is rendered, and no
\* service of a file not marked for generation is ever rendered.
C24_AbortOnFirstFailure ==
    (impl \in {"builder", "template"}) =>
      /\ Names(generated) = SubSeq(ServiceFileNames(files, TRUE), 1, Len(generated))
      /\ \A i \in 1..Len(generated) :
           generated[i].Name \notin Range(ServiceFileNames(files, FALSE))
      /\ \A i \in 1..Len(generated) :
           IsNil(generated[i].Text) => (i = Len(generated) /\ pc = "error" /\ err # Nil)
      /\ (pc = "error" /\ generated # <<>>) =>
           /\ IsNil(generated[Len(generated)].Text)
           /\ err \in TemplateErrors

\* rendering the first of two services failed and the second was left alone
C24_FirstFailedSecondSkipped ==
    /\ impl = "template" /\ pc = "error"
    /\ files[1].Generate /\ files[2].Generate
    /\ Len(generated) = 1
    /\ generated[1].Name = sWidgetSvc \o sDotGraphql
    /\ IsNil(generated[1].Text)
    /\ err = "template: error calling function"

\* every method of every service of the files marked for generation has its
\* root field, once for each call of Generate on this Generator
AllWalked ==
    \A k \in 1..Len(files) :
      files[k].Generate =>
        \A j \in 1..Len(files[k].Services) :
          LET s == files[k].Services[j]
          IN  Len(s.Methods) > 0 =>
                /\ s.FullName \in services
                /\ Len(schemas[s.FullName].RootQuery.Fields)
                     + Len(schemas[s.FullName].RootMutation.Fields)
                   = Len(s.Methods) * (IF run = "again" THEN 2 ELSE 1)

Rendering == pc \in {"print", "done", "error"}

\* C25: within one call of Generate every method of every generated service
\* has been walked before the first template is rendered, and from then on
\* no Schema, Type, Input, Enum or Field is modified.
C25_BuildPrecedesRender ==
    /\ [](impl = "builder" =>
            /\ pc = "walk" => generated = <<>>
            /\ Rendering => AllWalked)
    /\ [][(impl = "builder" /\ Rendering /\ Rendering') =>
            (schemas' = schemas /\ services' = services)]_vars

\* both services rendered from schemas built before
C25_RenderedAfterBuild ==
    /\ impl = "builder" /\ pc = "done" /\ run = "first"
    /\ Len(generated) = 2
    /\ Len(files[1].Services[1].Methods) = MaxMethods
    /\ generated[1].Text.Data = schemas[sWidgetSvc]
    /\ Len(schemas[sWidgetSvc].Types) > 0

\* walkSchemas on the methods ms, from the generator's maps g: the maps it
\* leaves, or the crash of the first walkMethod that dereferences nil, after
\* which nothing more is walked and the maps are as that call found them
RECURSIVE WalkAll(_, _)
WalkAllOn(g, walked, ms) ==
    IF walked.crash
    THEN [services |-> g.services, schemas |-> g.schemas, crash |-> TRUE]
    ELSE WalkAll(walked, Tail(ms))

WalkAll(g, ms) ==
    IF ms = <<>> THEN [services |-> g.services, schemas |-> g.schemas, crash |-> FALSE]
    ELSE WalkAllOn(g, walkMethod(g, Head(ms)), ms)

\* the methods in the order of walkSchemas when the files come the other
\* way round
OtherWalkOrder == MethodsOf(GeneratedServices(<<files[2], files[1]>>))

\* C26: walking a method of a service modifies the Schema keyed by that
\* service's full name only and leaves every other service's Schema as it
\* is; so the Schema built for a service is the same whatever the order in
\* which the services and their files are walked.
C26_ServiceIndependence ==
    /\ [][(impl = "builder" /\ pc = "walk" /\ pos <= Len(WalkOrder)) =>
            \A s \in services :
              (IsNil(WalkOrder[pos]) \/ s # WalkOrder[pos].Parent) =>
                (s \in services' /\ schemas'[s] = schemas[s])]_vars
    /\ []((impl = "builder" /\ Rendering /\ run # "again") =>
            WalkAll([services |-> {}, schemas |-> << >>], OtherWalkOrder)
              = [services |-> services, schemas |-> schemas, crash |-> FALSE])

\* GetProduct has been walked a second time beside the Schema of a
\* WidgetService with methods, which the step left alone
C26_WalkedBesideOther ==
    /\ impl = "builder" /\ pc = "walk" /\ run = "again"
    /\ services = {sWidgetSvc, sProductSvc}
    /\ pos = Len(WalkOrder) + 1
    /\ WalkOrder[Len(WalkOrder)].Parent = sProductSvc
    /\ Len(schemas[sProductSvc].RootQuery.Fields) = 2
    /\ Len(schemas[sWidgetSvc].Types) > 0

\* the downstream call succeeded and the response carries no entity
NoEntity ==
    /\ IsNil(probe.reply.err)
    /\ IF probe.resolver = "Product" THEN IsNil(probe.reply.resp.Msg.Product)
       ELSE IsNil(probe.reply.resp.Msg.User)

\* C27: when the downstream call succeeds and the response carries no
\* Product or User, the query resolver returns a nil model and a nil error;
\* when the downstream call fails it returns a nil model and that error.
C27_NotFoundIsNilNil ==
    (impl = "gateway" /\ pc # "resolve") =>
      /\ NoEntity => (pc = "done" /\ IsNil(verdict.model) /\ IsNil(verdict.err))
      /\ ~IsNil(probe.reply.err) =>
           (pc = "done" /\ IsNil(verdict.model) /\ verdict.err = probe.reply.err)

\* the first field of t that passes ShouldFederate's key test, <<>> if none
FirstKeyField(t) ==
    LET hit == {i \in 1..Len(t.Fields) :
                  HasSuffix(t.Fields[i].Name, <<"I", "d">>) /\ t.Fields[i].IsRequired}
    IN  IF hit = {} THEN <<>>
        ELSE t.Fields[CHOOSE i \in hit : \A j \in hit : i <= j].Name

\* the Types of the builder agree on entity flag and key
TypesKeyed ==
    \A svc \in services :
      \A i \in 1..Len(schemas[svc].Types) :
        /\ schemas[svc].Types[i].IsFederatedEntity
             <=> schemas[svc].Types[i].KeyFields # <<>>
        /\ schemas[svc].Types[i].KeyFields = FirstKeyField(schemas[svc].Types[i])

\* a message of the template data has the entity flag exactly when one of
\* its fields is a key
MessageKeyed(msg) == msg.Entity <=> \E j \in 1..Len(msg.Fields) : msg.Fields[j].Key

\* C28: for every type or message handed to the template the entity flag is
\* set if and only if a key field is recorded for it, and the recorded key
\* is the first field in declaration order that passes the key test: no
\* entity is without key field and no key is recorded on a non-entity.
C28_EntityHasKey ==
    /\ TypesKeyed
    /\ \A d \in RenderedData :
         /\ \A i \in 1..Len(d.Services[1].Messages) : MessageKeyed(d.Services[1].Messages[i])
         /\ \A i \in 1..Len(d.Messages) : MessageKeyed(d.Messages[i])

\* C29: for every Type that is a federated entity the template helper
\* idField returns the Type's KeyFields name, and isIDField is true of that
\* name: the renderer's id lookup and the builder's key inference name the
\* same field.
C29_KeyLookupAgrees ==
    \A svc \in services :
      \A i \in 1..Len(schemas[svc].Types) :
        schemas[svc].Types[i].IsFederatedEntity =>
          /\ idField(schemas[svc].Types[i]) = schemas[svc].Types[i].KeyFields
          /\ isIDField(schemas[svc].Types[i].KeyFields)

\* the type names the mappers give a field that is no message and no enum
ScalarTypeNames ==
    LET base == {gBoolean, gInt, gFloat, gID, gString, gObject}
    IN  base \cup {<<"[">> \o b \o <<"]">> : b \in base}

\* the types of the fields of the entries of list that are no scalars
NamedFieldTypes(list) ==
    UNION {{list[i].Fields[j].Type : j \in 1..Len(list[i].Fields)} : i \in 1..Len(list)}
      \ ScalarTypeNames

\* the same on the messages of the template data
NamedGraphQLTypes(list) ==
    UNION {{list[i].Fields[j].GraphQLType : j \in 1..Len(list[i].Fields)} :
             i \in 1..Len(list)}
      \ ScalarTypeNames

\* every type name used in the Schema s names an entry of s
Closed(s) ==
    /\ \A i \in 1..Len(s.RootQuery.Fields) :
         /\ s.RootQuery.Fields[i].Type \in Range(Names(s.Types))
         /\ s.RootQuery.Fields[i].Inputs[1].Name \in Range(Names(s.Inputs))
    /\ \A i \in 1..Len(s.RootMutation.Fields) :
         /\ s.RootMutation.Fields[i].Type \in Range(Names(s.Types))
         /\ s.RootMutation.Fields[i].Inputs[1].Name \in Range(Names(s.Inputs))
    /\ NamedFieldTypes(s.Types) \cup NamedFieldTypes(s.Inputs)
         \subseteq Range(Names(s.Types)) \cup Range(Names(s.Enums))

\* C30: after a service has been walked every type name used in its Schema,
\* the Type of each root field, the name of each root field's input and the
\* type of every message- or enum-typed field of a registered Type or Input,
\* names an entry registered in that Schema's Types, Inputs or Enums; the
\* message list of extractMessages is closed in the same way.
C30_ReferentialClosure ==
    /\ \A svc \in services : Closed(schemas[svc])
    /\ \A d \in RenderedData :
         /\ \A i \in 1..Len(d.Services[1].Methods) :
              d.Services[1].Methods[i].OutputType \in Range(Names(d.Services[1].Messages))
         /\ NamedGraphQLTypes(d.Services[1].Messages)
              \subseteq Range(Names(d.Services[1].Messages))

\* CreateWidget walked: its Input has the field widget of type Widget, the
\* Type Widget the fields status of the enum Status and owner of type Account
C30_WidgetClosed ==
    /\ impl = "builder" /\ pc = "print"
    /\ sWidgetSvc \in services
    /\ Names(schemas[sWidgetSvc].RootMutation.Fields) = <<ToLower(sCreate) \o sWidget>>
    /\ schemas[sWidgetSvc].RootMutation.Fields[1].Type = sWidget
    /\ NamedFieldTypes(schemas[sWidgetSvc].Inputs) = {sWidget}
    /\ NamedFieldTypes(schemas[sWidgetSvc].Types) = {sStatus, sAccount}
    /\ Names(schemas[sWidgetSvc].Enums) = <<sStatus>>

====
